---- MODULE Spec2Model ----
(***************************************************************************)
(* A model of aipim: the provider dispatcher (Client::new), the message    *)
(* builder (MessageBuilder) and the providers' send_message (request       *)
(* building, one HTTP exchange, response parsing).                         *)
(*                                                                         *)
(* A Rust String is a sequence of one-character strings, so that           *)
(* starts_with, format! and the base64 alphabet are computed and not       *)
(* assumed.  A Vec<u8> is a sequence of numbers in 0..255.                 *)
(***************************************************************************)
EXTENDS Integers, Sequences, FiniteSets, TLC

VARIABLES
    pc,        \* where the caller is: start, building, awaiting, done, panicked
    env,       \* the process environment: the names of the variables that are set
    client,    \* Option<Client>: the provider Client::new built
    builder,   \* the MessageBuilder: text, images, model
    last,      \* the last call the caller made, with its arguments
    ret,       \* what the last finished call returned (Ok/Err) or that it panicked
    handed,    \* the Messages handed to the provider's send_message, in order
    posted,    \* the HTTP requests posted, in order
    body       \* Option: the reply to the posted request

vars == <<pc, env, client, builder, last, ret, handed, posted, body>>

-----------------------------------------------------------------------------
(* Option<T>, Result<T, anyhow::Error> and a panic.                        *)

None == [some |-> FALSE]
Some(v) == [some |-> TRUE, val |-> v]

Ok(v) == [tag |-> "Ok", val |-> v]
Err(kind, msg) == [tag |-> "Err", kind |-> kind, msg |-> msg]
Panic(msg) == [tag |-> "Panic", msg |-> msg]
NotCalled == [tag |-> "NotCalled"]

-----------------------------------------------------------------------------
(* str                                                                     *)

StartsWith(s, p) == Len(s) >= Len(p) /\ SubSeq(s, 1, Len(p)) = p

Contains(s, p) == \E i \in 0..(Len(s) - Len(p)) : SubSeq(s, i + 1, i + Len(p)) = p

-----------------------------------------------------------------------------
(* Bounds of the model.                                                    *)

MaxImages == 2
MaxBytes == 3

-----------------------------------------------------------------------------
(* The providers: constructors and defaults.                               *)

OPENAI_MODELS == << <<"g","p","t","-","4","o">>, <<"g","p","t","-","4","-","t","u","r","b","o">>, <<"g","p","t","-","4">>, <<"g","p","t","-","3",".","5","-","t","u","r","b","o">> >>
ANTHROPIC_MODELS == << <<"c","l","a","u","d","e","-","3","-","5","-","s","o","n","n","e","t","-","2","0","2","4","0","6","2","0">>, <<"c","l","a","u","d","e","-","3","-","o","p","u","s","-","2","0","2","4","0","2","2","9">>,
                       <<"c","l","a","u","d","e","-","3","-","s","o","n","n","e","t","-","2","0","2","4","0","2","2","9">>, <<"c","l","a","u","d","e","-","3","-","h","a","i","k","u","-","2","0","2","4","0","3","0","7">> >>
GOOGLE_MODELS == << <<"g","e","m","i","n","i","-","1",".","5","-","p","r","o">>, <<"g","e","m","i","n","i","-","2",".","0","-","f","l","a","s","h">>, <<"g","e","m","i","n","i","-","2",".","0","-","f","l","a","s","h","-","l","i","t","e">>,
                    <<"g","e","m","i","n","i","-","2",".","5","-","p","r","o","-","e","x","p","-","0","3","-","2","5">> >>

ProviderNew(kind, api_key, model) == [kind |-> kind, api_key |-> api_key, model |-> model]

\* Google::is_valid_model(model_name)
is_valid_model(model_name) == \E i \in DOMAIN GOOGLE_MODELS : GOOGLE_MODELS[i] = model_name

\* with_model keeping the default for a model that is in no catalogue.
with_model_in_catalogue(p, model) ==
    IF \E i \in 1..4 : model \in {OPENAI_MODELS[i], ANTHROPIC_MODELS[i], GOOGLE_MODELS[i]}
    THEN [p EXCEPT !.model = model]
    ELSE p

with_model(p, model) == [p EXCEPT !.model = model]

\* std::env::var(name): the value when the variable is set.
EnvVar(e, name) == IF name \in DOMAIN e THEN Some(e[name]) ELSE None

\* Option::expect(msg)
Expect(opt, msg) == IF opt.some THEN Ok(opt.val) ELSE Panic(msg)

OpenAIDefault(e) ==
    LET key == Expect(EnvVar(e, "OPENAI_API_KEY"), <<"O","P","E","N","A","I","_","A","P","I","_","K","E","Y"," ","i","s"," ","n","o","t"," ","s","e","t">>)
    IN  IF key.tag = "Ok" THEN Ok(ProviderNew("OpenAI", key.val, OPENAI_MODELS[1])) ELSE key

AnthropicDefault(e) ==
    LET key == Expect(EnvVar(e, "ANTHROPIC_API_KEY"), <<"A","N","T","H","R","O","P","I","C","_","A","P","I","_","K","E","Y"," ","i","s"," ","n","o","t"," ","s","e","t">>)
    IN  IF key.tag = "Ok" THEN Ok(ProviderNew("Anthropic", key.val, ANTHROPIC_MODELS[1])) ELSE key

GoogleDefault(e) ==
    LET key == Expect(EnvVar(e, "GEMINI_API_KEY"), <<"G","E","M","I","N","I","_","A","P","I","_","K","E","Y"," ","i","s"," ","n","o","t"," ","s","e","t">>)
    IN  IF key.tag = "Ok" THEN Ok(ProviderNew("Google", key.val, GOOGLE_MODELS[3])) ELSE key

\* X::default().with_model(model): a panic in default() unwinds through it.
DefaultWithModel(d, model) == IF d.tag = "Ok" THEN Ok(with_model(d.val, model)) ELSE d

\* Client::new without the branch for "gemini".
ClientNewNoGemini(e, model) ==
    IF StartsWith(model, <<"g","p","t">>) THEN DefaultWithModel(OpenAIDefault(e), model)
    ELSE IF StartsWith(model, <<"c","l","a","u","d","e">>) THEN DefaultWithModel(AnthropicDefault(e), model)
    ELSE Err("UnsupportedModel", <<"u","n","s","u","p","p","o","r","t","e","d"," ","m","o","d","e","l",":"," ">> \o model)

\* Client::new(model)
ClientNew(e, model) ==
    IF StartsWith(model, <<"g","p","t">>) THEN DefaultWithModel(OpenAIDefault(e), model)
    ELSE IF StartsWith(model, <<"c","l","a","u","d","e">>) THEN DefaultWithModel(AnthropicDefault(e), model)
    ELSE IF StartsWith(model, <<"g","e","m","i","n","i">>) THEN DefaultWithModel(GoogleDefault(e), model)
    ELSE Err("UnsupportedModel", <<"u","n","s","u","p","p","o","r","t","e","d"," ","m","o","d","e","l",":"," ">> \o model)

-----------------------------------------------------------------------------
(* base64::engine::general_purpose::STANDARD                               *)

B64Alphabet == <<"A","B","C","D","E","F","G","H","I","J","K","L","M","N","O","P","Q","R","S","T","U","V","W","X","Y","Z","a","b","c","d","e","f","g","h","i","j","k","l","m","n","o","p","q","r","s","t","u","v","w","x","y","z","0","1","2","3","4","5","6","7","8","9","+","/">>

B64Char(n) == B64Alphabet[n + 1]

\* A group encoded without the padding.
EncodeGroupNoPad(g) ==
    LET b1 == g[1]
        b2 == IF Len(g) >= 2 THEN g[2] ELSE 0
        b3 == IF Len(g) >= 3 THEN g[3] ELSE 0
        c1 == B64Char(b1 \div 4)
        c2 == B64Char((b1 % 4) * 16 + (b2 \div 16))
        c3 == B64Char((b2 % 16) * 4 + (b3 \div 64))
        c4 == B64Char(b3 % 64)
    IN  IF Len(g) = 1 THEN <<c1, c2>>
        ELSE IF Len(g) = 2 THEN <<c1, c2, c3>>
        ELSE <<c1, c2, c3, c4>>

\* The characters of one group of one, two or three bytes, padded to four.
EncodeGroup(g) ==
    LET b1 == g[1]
        b2 == IF Len(g) >= 2 THEN g[2] ELSE 0
        b3 == IF Len(g) >= 3 THEN g[3] ELSE 0
        c1 == B64Char(b1 \div 4)
        c2 == B64Char((b1 % 4) * 16 + (b2 \div 16))
        c3 == B64Char((b2 % 16) * 4 + (b3 \div 64))
        c4 == B64Char(b3 % 64)
    IN  IF Len(g) = 1 THEN <<c1, c2, "=", "=">>
        ELSE IF Len(g) = 2 THEN <<c1, c2, c3, "=">>
        ELSE <<c1, c2, c3, c4>>

RECURSIVE Encode(_)
Encode(bytes) ==
    IF bytes = <<>> THEN <<>>
    ELSE IF Len(bytes) <= 3 THEN EncodeGroup(bytes)
    ELSE EncodeGroup(SubSeq(bytes, 1, 3)) \o Encode(SubSeq(bytes, 4, Len(bytes)))

-----------------------------------------------------------------------------
(* std::path::Path::extension                                              *)

RECURSIVE LastIndexOf(_, _)
LastIndexOf(s, c) ==
    IF s = <<>> THEN 0
    ELSE IF s[Len(s)] = c THEN Len(s)
    ELSE LastIndexOf(SubSeq(s, 1, Len(s) - 1), c)

\* Path::file_name: the last component, if it is a normal one.  A trailing
\* separator and a trailing "." component are not components.
RECURSIVE FileName(_)
FileName(p) ==
    IF p = <<>> THEN None
    ELSE IF p[Len(p)] = "/" THEN FileName(SubSeq(p, 1, Len(p) - 1))
    ELSE LET name == SubSeq(p, LastIndexOf(p, "/") + 1, Len(p))
         IN  IF name = <<".">> /\ Len(p) > 1 THEN FileName(SubSeq(p, 1, Len(p) - 1))
             ELSE IF name = <<".">> \/ name = <<".",".">> THEN None
             ELSE Some(name)

\* Path::extension: what follows the last dot of the file name, when the
\* file name has a dot that is not its first character.
Extension(p) ==
    LET f == FileName(p)
    IN  IF ~f.some THEN None
        ELSE LET dot == LastIndexOf(f.val, ".")
             IN  IF dot <= 1 THEN None
                 ELSE Some(SubSeq(f.val, dot + 1, Len(f.val)))

-----------------------------------------------------------------------------
(* MessageBuilder                                                          *)

Image(data, mime_type) == [data |-> data, mime_type |-> mime_type]

Message(text, images, model) == [text |-> text, images |-> images, model |-> model]

MessageBuilderNew == [text |-> None, images |-> <<>>, model |-> None]

\* MessageBuilder::text
BuilderText(b, text) == [b EXCEPT !.text = Some(text)]

\* image putting the new Image ahead of the earlier ones.
BuilderImagePrepend(b, data, mime_type) ==
    [b EXCEPT !.images = <<Image(Encode(data), mime_type)>> \o b.images]

\* MessageBuilder::image: the bytes are encoded here, when the image is added.
BuilderImage(b, data, mime_type) ==
    [b EXCEPT !.images = Append(b.images, Image(Encode(data), mime_type))]

\* The match without the "jpeg" alternative.
MimeOfExtensionNoJpeg(ext) ==
    IF ext = Some(<<"j","p","g">>) THEN Ok(<<"i","m","a","g","e","/","j","p","e","g">>)
    ELSE IF ext = Some(<<"p","n","g">>) THEN Ok(<<"i","m","a","g","e","/","p","n","g">>)
    ELSE IF ext = Some(<<"g","i","f">>) THEN Ok(<<"i","m","a","g","e","/","g","i","f">>)
    ELSE IF ext = Some(<<"w","e","b","p">>) THEN Ok(<<"i","m","a","g","e","/","w","e","b","p">>)
    ELSE Err("UnsupportedImageFormat", <<"u","n","s","u","p","p","o","r","t","e","d"," ","i","m","a","g","e"," ","f","o","r","m","a","t">>)

\* The match of MessageBuilder::image_file on the path's extension.
MimeOfExtension(ext) ==
    IF ext = Some(<<"j","p","g">>) \/ ext = Some(<<"j","p","e","g">>) THEN Ok(<<"i","m","a","g","e","/","j","p","e","g">>)
    ELSE IF ext = Some(<<"p","n","g">>) THEN Ok(<<"i","m","a","g","e","/","p","n","g">>)
    ELSE IF ext = Some(<<"g","i","f">>) THEN Ok(<<"i","m","a","g","e","/","g","i","f">>)
    ELSE IF ext = Some(<<"w","e","b","p">>) THEN Ok(<<"i","m","a","g","e","/","w","e","b","p">>)
    ELSE Err("UnsupportedImageFormat", <<"u","n","s","u","p","p","o","r","t","e","d"," ","i","m","a","g","e"," ","f","o","r","m","a","t">>)

\* MessageBuilder::image_file; read is what std::fs::read(file) returns.
BuilderImageFile(b, file, read) ==
    LET mime == MimeOfExtension(Extension(file))
    IN  IF mime.tag # "Ok" THEN mime
        ELSE IF read.tag # "Ok" THEN read
        ELSE Ok(BuilderImage(b, read.val, mime.val))

\* MessageBuilder::model
BuilderModel(b, model) == [b EXCEPT !.model = Some(model)]

\* MessageBuilder::prompt; read is what std::fs::read_to_string returns.
BuilderPrompt(b, e, read) ==
    LET path == EnvVar(e, "PROMPT_PATH")
    IN  IF ~path.some THEN Err("Env", <<"e","n","v","i","r","o","n","m","e","n","t"," ","v","a","r","i","a","b","l","e"," ","n","o","t"," ","f","o","u","n","d">>)
        ELSE IF read.tag # "Ok" THEN read
        ELSE Ok([b EXCEPT !.text = Some(read.val)])

\* send with unwrap_or_default in place of expect.
BuilderMessageDefaultText(b) ==
    Ok(Message(IF b.text.some THEN b.text.val ELSE <<>>, Some(b.images), None))

\* The Message that MessageBuilder::send builds, or its panic.
BuilderMessage(b) ==
    LET text == Expect(b.text, <<"t","e","x","t"," ","i","s"," ","r","e","q","u","i","r","e","d">>)
    IN  IF text.tag # "Ok" THEN text
        ELSE Ok(Message(text.val, Some(b.images), None))

-----------------------------------------------------------------------------
(* serde_json::Value, and how serde's derived Deserialize reads one.       *)
(* An object is a function from its member names to values.                *)

JNull == [t |-> "null"]
JBool(b) == [t |-> "bool", b |-> b]
\* A number is an integer up to u32::MAX (JNum), an integer above it that
\* still fits 63 bits (JBigNum), or a number with a fraction (JFrac).
JNum(n) == [t |-> "num", n |-> n]
JBigNum == [t |-> "bignum"]
JFrac == [t |-> "frac"]
JStr(s) == [t |-> "str", s |-> s]
JArr(a) == [t |-> "arr", a |-> a]
JObj(o) == [t |-> "obj", o |-> o]

IsObj(v) == v.t = "obj"
Has(v, k) == IsObj(v) /\ k \in DOMAIN v.o

\* A member of type String: present, and a JSON string.
ReqStr(v, k) == Has(v, k) /\ v.o[k].t = "str"

IsU32(v) == v.t = "num" /\ v.n >= 0
IsF32(v) == v.t \in {"num", "bignum", "frac"}
IsString(v) == v.t = "str"

\* A member of type u32.
ReqU32(v, k) == Has(v, k) /\ IsU32(v.o[k])

\* A member of type Option<T> that reads as None: absent, or null.
OptNone(v, k) == ~Has(v, k) \/ v.o[k].t = "null"

\* A member of type Vec<T>: present and an array; Elems are its elements.
ReqArr(v, k) == Has(v, k) /\ v.o[k].t = "arr"
Elems(v, k) == {v.o[k].a[i] : i \in 1..Len(v.o[k].a)}

\* Display of an unsigned integer.
Digit(d) == <<"0","1","2","3","4","5","6","7","8","9">>[d + 1]

RECURSIVE ToDecimal(_)
ToDecimal(n) == IF n < 10 THEN <<Digit(n)>> ELSE ToDecimal(n \div 10) \o <<Digit(n % 10)>>

-----------------------------------------------------------------------------
(* provider/google.rs: the wire types                                      *)

GOOGLE_BASE_URL == <<"h","t","t","p","s",":","/","/","g","e","n","e","r","a","t","i","v","e","l","a","n","g","u","a","g","e",".","g","o","o","g","l","e","a","p","i","s",".","c","o","m","/","v","1","b","e","t","a","/">>

TextPart(text) == [kind |-> "Text", text |-> text]
InlineData(mime_type, data) == [kind |-> "InlineData", mime_type |-> mime_type, data |-> data]

IsTextPart(v) == IsObj(v) /\ ReqStr(v, "text")
IsBlob(v) == IsObj(v) /\ ReqStr(v, "mimeType") /\ ReqStr(v, "data")
IsInlineData(v) == Has(v, "inlineData") /\ IsBlob(v.o["inlineData"])

\* enum Part, untagged: Text is tried first, then InlineData.
IsPart(v) == IsTextPart(v) \/ IsInlineData(v)
AsPart(v) ==
    IF IsTextPart(v) THEN TextPart(v.o["text"].s)
    ELSE InlineData(v.o["inlineData"].o["mimeType"].s, v.o["inlineData"].o["data"].s)

\* as_text giving an empty text for a part that is no text.
PartAsTextEmpty(part) == IF part.kind = "Text" THEN Some(part.text) ELSE Some(<<>>)

\* Part::as_text
PartAsText(part) == IF part.kind = "Text" THEN Some(part.text) ELSE None

IsGoogleContent(v) == IsObj(v) /\ ReqArr(v, "parts") /\ (\A e \in Elems(v, "parts") : IsPart(e)) /\ ReqStr(v, "role")
AsGoogleContent(v) ==
    [parts |-> [i \in 1..Len(v.o["parts"].a) |-> AsPart(v.o["parts"].a[i])],
     role |-> v.o["role"].s]

IsSafetyRating(v) == IsObj(v) /\ ReqStr(v, "category") /\ ReqStr(v, "probability")
IsSafetyRatings(v) == v.t = "arr" /\ \A i \in 1..Len(v.a) : IsSafetyRating(v.a[i])

\* Candidate with usage of index: u32 in place of Option<u32>.
IsCandidateIndexRequired(v) ==
    /\ IsObj(v)
    /\ Has(v, "content") /\ IsGoogleContent(v.o["content"])
    /\ ReqStr(v, "finishReason")
    /\ ReqU32(v, "index")
    /\ (OptNone(v, "safetyRatings") \/ IsSafetyRatings(v.o["safetyRatings"]))
    /\ (OptNone(v, "avgLogprobs") \/ IsF32(v.o["avgLogprobs"]))

IsCandidate(v) ==
    /\ IsObj(v)
    /\ Has(v, "content") /\ IsGoogleContent(v.o["content"])
    /\ ReqStr(v, "finishReason")
    /\ (OptNone(v, "index") \/ IsU32(v.o["index"]))
    /\ (OptNone(v, "safetyRatings") \/ IsSafetyRatings(v.o["safetyRatings"]))
    /\ (OptNone(v, "avgLogprobs") \/ IsF32(v.o["avgLogprobs"]))
AsCandidate(v) ==
    [content |-> AsGoogleContent(v.o["content"]), finish_reason |-> v.o["finishReason"].s]

IsUsageMetadata(v) ==
    /\ IsObj(v)
    /\ ReqU32(v, "candidatesTokenCount")
    /\ ReqU32(v, "promptTokenCount")
    /\ ReqU32(v, "totalTokenCount")

IsPromptFeedback(v) == IsObj(v) /\ ReqArr(v, "safetyRatings") /\ (\A e \in Elems(v, "safetyRatings") : IsSafetyRating(e))

IsSuccessResponse(v) ==
    /\ IsObj(v)
    /\ ReqArr(v, "candidates") /\ (\A e \in Elems(v, "candidates") : IsCandidate(e))
    /\ (OptNone(v, "modelVersion") \/ IsString(v.o["modelVersion"]))
    /\ (OptNone(v, "usageMetadata") \/ IsUsageMetadata(v.o["usageMetadata"]))
    /\ (OptNone(v, "promptFeedback") \/ IsPromptFeedback(v.o["promptFeedback"]))

IsErrorResponse(v) == IsObj(v) /\ ReqU32(v, "code") /\ ReqStr(v, "message") /\ ReqStr(v, "status")

\* The variants tried in the other order: Error { error }, then Success.
GoogleFromValueErrorFirst(v) ==
    IF Has(v, "error") /\ IsErrorResponse(v.o["error"])
    THEN Ok([variant |-> "Error",
             error |-> [code |-> v.o["error"].o["code"].n,
                        message |-> v.o["error"].o["message"].s,
                        status |-> v.o["error"].o["status"].s]])
    ELSE IF IsSuccessResponse(v)
    THEN Ok([variant |-> "Success",
             candidates |-> [i \in 1..Len(v.o["candidates"].a) |->
                                AsCandidate(v.o["candidates"].a[i])]])
    ELSE Err("Decode", <<"d","a","t","a"," ","d","i","d"," ","n","o","t"," ","m","a","t","c","h"," ","a","n","y"," ","v","a","r","i","a","n","t"," ","o","f"," ","u","n","t","a","g","g","e","d"," ","e","n","u","m"," ","R","e","s","p","o","n","s","e">>)

\* serde_json::from_value::<Response>: the untagged enum tries Success, then
\* Error { error }, and fails when the value is neither.
GoogleFromValue(v) ==
    IF IsSuccessResponse(v)
    THEN Ok([variant |-> "Success",
             candidates |-> [i \in 1..Len(v.o["candidates"].a) |->
                                AsCandidate(v.o["candidates"].a[i])]])
    ELSE IF Has(v, "error") /\ IsErrorResponse(v.o["error"])
    THEN Ok([variant |-> "Error",
             error |-> [code |-> v.o["error"].o["code"].n,
                        message |-> v.o["error"].o["message"].s,
                        status |-> v.o["error"].o["status"].s]])
    ELSE Err("Decode", <<"d","a","t","a"," ","d","i","d"," ","n","o","t"," ","m","a","t","c","h"," ","a","n","y"," ","v","a","r","i","a","n","t"," ","o","f"," ","u","n","t","a","g","g","e","d"," ","e","n","u","m"," ","R","e","s","p","o","n","s","e">>)

\* The text Google::send_message takes from a Success: candidates[0] and
\* parts[0] are indexed, which panics on an empty Vec.
GoogleSuccessText(success) ==
    IF Len(success.candidates) = 0 THEN Panic(<<"i","n","d","e","x"," ","o","u","t"," ","o","f"," ","b","o","u","n","d","s">>)
    ELSE LET content == success.candidates[1].content
         IN  IF Len(content.parts) = 0 THEN Panic(<<"i","n","d","e","x"," ","o","u","t"," ","o","f"," ","b","o","u","n","d","s">>)
             ELSE LET text == PartAsText(content.parts[1])
                  IN  IF text.some THEN Ok([text |-> text.val])
                      ELSE Err("UnsupportedResponseContent",
                               <<"u","n","s","u","p","p","o","r","t","e","d"," ","r","e","s","p","o","n","s","e"," ","c","o","n","t","e","n","t"," ","t","y","p","e",":"," ">>)

\* The error rendered without the code.
GoogleErrorTextNoCode(error) == error.status \o <<":"," ">> \o error.message

\* The error Google::send_message makes of an Error: "{status}: {message} ({code})".
GoogleErrorText(error) ==
    error.status \o <<":"," ">> \o error.message \o <<" ","(">> \o ToDecimal(error.code) \o <<")">>

\* What Google::send_message returns for a reply: the transport's failure,
\* the body that is no JSON, or the parsed value.
GoogleOutcome(reply) ==
    IF reply.kind = "transport_error" THEN Err("Transport", <<"e","r","r","o","r"," ","s","e","n","d","i","n","g"," ","r","e","q","u","e","s","t">>)
    ELSE IF reply.kind = "not_json" THEN Err("Transport", <<"e","r","r","o","r"," ","d","e","c","o","d","i","n","g"," ","r","e","s","p","o","n","s","e"," ","b","o","d","y">>)
    ELSE LET response == GoogleFromValue(reply.value)
         IN  IF response.tag # "Ok" THEN response
             ELSE IF response.val.variant = "Success" THEN GoogleSuccessText(response.val)
             ELSE Err("VendorError", GoogleErrorText(response.val.error))

MAX_OUTPUT_TOKENS_GEMINI_2 == 32768
MAX_OUTPUT_TOKENS_OLDER == 8192

\* The loop with push in place of insert(0, ..).
RECURSIVE PushImages(_, _)
PushImages(parts, images) ==
    IF images = <<>> THEN parts
    ELSE PushImages(parts \o <<InlineData(Head(images).mime_type, Head(images).data)>>,
                    Tail(images))

\* The images put ahead of the text in the order of the Message.
RECURSIVE PrependImagesInOrder(_, _)
PrependImagesInOrder(parts, images) ==
    IF images = <<>> THEN parts
    ELSE <<InlineData(Head(images).mime_type, Head(images).data)>>
         \o PrependImagesInOrder(parts, Tail(images))

\* The loop of build_request: each image is inserted at index 0.
RECURSIVE InsertImages(_, _)
InsertImages(parts, images) ==
    IF images = <<>> THEN parts
    ELSE InsertImages(<<InlineData(Head(images).mime_type, Head(images).data)>> \o parts,
                      Tail(images))

\* build_request with the older models' configuration for every model.
GoogleBuildRequestOlder(message, model) ==
    LET text == <<TextPart(message.text)>>
        parts == IF message.images.some THEN InsertImages(text, message.images.val) ELSE text
    IN  [contents |-> <<[parts |-> parts, role |-> <<"u","s","e","r">>]>>,
         safety_settings |-> <<>>,
         generation_config |->
             [temperature |-> <<"0",".","9">>, top_p |-> <<"1",".","0">>, top_k |-> 1,
              max_output_tokens |-> MAX_OUTPUT_TOKENS_OLDER,
              response_mime_type |-> Some(<<"t","e","x","t","/","p","l","a","i","n">>)],
         system_instruction |-> None]

\* build_request(message, model)
GoogleBuildRequest(message, model) ==
    LET text == <<TextPart(message.text)>>
        parts == IF message.images.some THEN InsertImages(text, message.images.val) ELSE text
    IN  [contents |-> <<[parts |-> parts, role |-> <<"u","s","e","r">>]>>,
         safety_settings |-> <<>>,
         generation_config |->
             [temperature |-> <<"0",".","9">>, top_p |-> <<"1",".","0">>, top_k |-> 1,
              max_output_tokens |-> IF StartsWith(model, <<"g","e","m","i","n","i","-","2">>)
                                    THEN MAX_OUTPUT_TOKENS_GEMINI_2
                                    ELSE MAX_OUTPUT_TOKENS_OLDER,
              response_mime_type |-> Some(<<"t","e","x","t","/","p","l","a","i","n">>)],
         system_instruction |->
             IF StartsWith(model, <<"g","e","m","i","n","i","-","2">>)
             THEN Some([parts |-> <<TextPart(<<"Y","o","u"," ","a","r","e"," ","a"," ","h","e","l","p","f","u","l"," ","A","I"," ","a","s","s","i","s","t","a","n","t",".">>)>>])
             ELSE None]

\* The POST of Google::send_message: the key travels in the query string.
GooglePost(p, message) ==
    [method |-> "POST",
     url |-> GOOGLE_BASE_URL \o <<"m","o","d","e","l","s","/">> \o p.model \o <<":","g","e","n","e","r","a","t","e","C","o","n","t","e","n","t","?","k","e","y","=">> \o p.api_key,
     headers |-> {},
     json |-> GoogleBuildRequest(message, p.model)]

-----------------------------------------------------------------------------
(* provider/openai.rs                                                      *)

OPENAI_BASE_URL == <<"h","t","t","p","s",":","/","/","a","p","i",".","o","p","e","n","a","i",".","c","o","m","/","v","1","/">>
OPENAI_MAX_TOKENS == 4096

\* The images a provider's `for image in message.images` loop visits.
ImagesOf(message) == IF message.images.some THEN message.images.val ELSE <<>>

\* The image part with the data URI of the image's declared type.
OpenAIImagePartDeclaredType(image) ==
    [kind |-> "Image", typ |-> <<"i","m","a","g","e","_","u","r","l">>,
     image_url |-> [url |-> <<"d","a","t","a",":">> \o image.mime_type \o <<";","b","a","s","e","6","4",",">> \o image.data]]

OpenAIImagePart(image) ==
    [kind |-> "Image", typ |-> <<"i","m","a","g","e","_","u","r","l">>,
     image_url |-> [url |-> <<"d","a","t","a",":","i","m","a","g","e","/","j","p","e","g",";","b","a","s","e","6","4",",">> \o image.data]]

\* The request naming the Message's model when it has one.
OpenAIBuildRequestMessageModel(message, model) ==
    LET images == ImagesOf(message)
        content == <<[kind |-> "Text", typ |-> <<"t","e","x","t">>, text |-> message.text]>>
                   \o [i \in 1..Len(images) |-> OpenAIImagePart(images[i])]
    IN  [model |-> IF message.model.some THEN message.model.val ELSE model,
         messages |-> <<[role |-> <<"u","s","e","r">>, content |-> content]>>,
         max_tokens |-> OPENAI_MAX_TOKENS]

\* The Request of OpenAI::send_message: one user message, the text part
\* first, then one image part pushed per image.
OpenAIBuildRequest(message, model) ==
    LET images == ImagesOf(message)
        content == <<[kind |-> "Text", typ |-> <<"t","e","x","t">>, text |-> message.text]>>
                   \o [i \in 1..Len(images) |-> OpenAIImagePart(images[i])]
    IN  [model |-> model,
         messages |-> <<[role |-> <<"u","s","e","r">>, content |-> content]>>,
         max_tokens |-> OPENAI_MAX_TOKENS]

OpenAIPost(p, message) ==
    [method |-> "POST",
     url |-> OPENAI_BASE_URL \o <<"c","h","a","t","/","c","o","m","p","l","e","t","i","o","n","s">>,
     headers |-> {<<"Authorization", <<"B","e","a","r","e","r"," ">> \o p.api_key>>},
     json |-> OpenAIBuildRequest(message, p.model)]

IsInteger(v) == v.t \in {"num", "bignum"}
IsUsize(v) == v.t = "bignum" \/ (v.t = "num" /\ v.n >= 0)
IsBoolean(v) == v.t = "bool"

\* An object without one of its members.
Without(v, k) == JObj([m \in (DOMAIN v.o) \ {k} |-> v.o[m]])

IsOpenAIText(v) == IsObj(v) /\ ReqStr(v, "text") /\ ReqStr(v, "type")
IsOpenAIImageUrl(v) == IsObj(v) /\ ReqStr(v, "url")
IsOpenAIImage(v) ==
    IsObj(v) /\ Has(v, "image_url") /\ IsOpenAIImageUrl(v.o["image_url"]) /\ ReqStr(v, "type")

\* enum ComplexContent, tagged by "type": the tag names the variant (Text or
\* Image) and is taken out of the object before the variant's struct, which
\* has a member "type" of its own, is read from what is left.
IsComplexContent(v) ==
    /\ ReqStr(v, "type")
    /\ \/ v.o["type"].s = <<"T","e","x","t">> /\ IsOpenAIText(Without(v, "type"))
       \/ v.o["type"].s = <<"I","m","a","g","e">> /\ IsOpenAIImage(Without(v, "type"))

\* enum Content, untagged: Simple(String), then Complex(Vec<ComplexContent>).
IsOpenAIContent(v) ==
    \/ v.t = "str"
    \/ v.t = "arr" /\ \A i \in 1..Len(v.a) : IsComplexContent(v.a[i])
AsOpenAIContent(v) ==
    IF v.t = "str" THEN [kind |-> "Simple", text |-> v.s] ELSE [kind |-> "Complex", parts |-> <<>>]

\* Content::as_text
OpenAIContentAsText(content) == IF content.kind = "Simple" THEN Some(content.text) ELSE None

IsChatMessage(v) ==
    IsObj(v) /\ ReqStr(v, "role") /\ Has(v, "content") /\ IsOpenAIContent(v.o["content"])

IsChoice(v) ==
    /\ IsObj(v)
    /\ Has(v, "index") /\ IsUsize(v.o["index"])
    /\ Has(v, "message") /\ IsChatMessage(v.o["message"])
    /\ (OptNone(v, "logprobs") \/ IsBoolean(v.o["logprobs"]))
    /\ ReqStr(v, "finish_reason")

IsOpenAIUsage(v) ==
    /\ IsObj(v)
    /\ Has(v, "prompt_tokens") /\ IsUsize(v.o["prompt_tokens"])
    /\ Has(v, "completion_tokens") /\ IsUsize(v.o["completion_tokens"])
    /\ Has(v, "total_tokens") /\ IsUsize(v.o["total_tokens"])

IsOpenAIMessage(v) ==
    /\ IsObj(v)
    /\ ReqStr(v, "id") /\ ReqStr(v, "object")
    /\ Has(v, "created") /\ IsInteger(v.o["created"])
    /\ ReqStr(v, "model") /\ ReqStr(v, "system_fingerprint")
    /\ ReqArr(v, "choices") /\ (\A e \in Elems(v, "choices") : IsChoice(e))
    /\ Has(v, "usage") /\ IsOpenAIUsage(v.o["usage"])

IsOpenAIError(v) ==
    /\ IsObj(v)
    /\ (OptNone(v, "code") \/ IsString(v.o["code"]))
    /\ ReqStr(v, "message") /\ ReqStr(v, "param") /\ ReqStr(v, "type")

\* serde_json::from_value::<Response>: Message, then Error { error }.
OpenAIFromValue(v) ==
    IF IsOpenAIMessage(v)
    THEN Ok([variant |-> "Message",
             choices |-> [i \in 1..Len(v.o["choices"].a) |->
                 [message |-> [content |->
                     AsOpenAIContent(v.o["choices"].a[i].o["message"].o["content"])]]]])
    ELSE IF Has(v, "error") /\ IsOpenAIError(v.o["error"])
    THEN Ok([variant |-> "Error",
             error |-> [code |-> IF Has(v.o["error"], "code") /\ v.o["error"].o["code"].t = "str"
                                 THEN Some(v.o["error"].o["code"].s) ELSE None,
                        message |-> v.o["error"].o["message"].s,
                        param |-> v.o["error"].o["param"].s]])
    ELSE Err("Decode", <<"d","a","t","a"," ","d","i","d"," ","n","o","t"," ","m","a","t","c","h"," ","a","n","y"," ","v","a","r","i","a","n","t"," ","o","f"," ","u","n","t","a","g","g","e","d"," ","e","n","u","m"," ","R","e","s","p","o","n","s","e">>)

OpenAISuccessText(message) ==
    IF Len(message.choices) = 0 THEN Panic(<<"i","n","d","e","x"," ","o","u","t"," ","o","f"," ","b","o","u","n","d","s">>)
    ELSE LET text == OpenAIContentAsText(message.choices[1].message.content)
         IN  IF text.some THEN Ok([text |-> text.val])
             ELSE Err("UnsupportedResponseContent", <<"u","n","s","u","p","p","o","r","t","e","d"," ","r","e","s","p","o","n","s","e"," ","c","o","n","t","e","n","t"," ","t","y","p","e",":"," ">>)

\* The error rendered without the param.
OpenAIErrorTextNoParam(error) ==
    (IF error.code.some THEN error.code.val \o <<":"," ">> ELSE <<>>) \o error.message

\* "{code}: {message} ({param})", the code and its colon only when there is one.
OpenAIErrorText(error) ==
    (IF error.code.some THEN error.code.val \o <<":"," ">> ELSE <<>>)
    \o error.message \o <<" ","(">> \o error.param \o <<")">>

OpenAIOutcome(reply) ==
    IF reply.kind = "transport_error" THEN Err("Transport", <<"e","r","r","o","r"," ","s","e","n","d","i","n","g"," ","r","e","q","u","e","s","t">>)
    ELSE IF reply.kind = "not_json" THEN Err("Transport", <<"e","r","r","o","r"," ","d","e","c","o","d","i","n","g"," ","r","e","s","p","o","n","s","e"," ","b","o","d","y">>)
    ELSE LET response == OpenAIFromValue(reply.value)
         IN  IF response.tag # "Ok" THEN response
             ELSE IF response.val.variant = "Message" THEN OpenAISuccessText(response.val)
             ELSE Err("VendorError", OpenAIErrorText(response.val.error))

-----------------------------------------------------------------------------
(* provider/anthropic.rs                                                   *)

ANTHROPIC_BASE_URL == <<"h","t","t","p","s",":","/","/","a","p","i",".","a","n","t","h","r","o","p","i","c",".","c","o","m","/","v","1","/">>
ANTHROPIC_MAX_TOKENS == 1024
ANTRHOPIC_VERSION == <<"2","0","2","3","-","0","6","-","0","1">>

\* The image block with the media type fixed to image/jpeg.
AnthropicImageBlockJpeg(image) ==
    [kind |-> "Image", typ |-> <<"i","m","a","g","e">>,
     source |-> [typ |-> <<"b","a","s","e","6","4">>, media_type |-> <<"i","m","a","g","e","/","j","p","e","g">>, data |-> image.data]]

AnthropicImageBlock(image) ==
    [kind |-> "Image", typ |-> <<"i","m","a","g","e">>,
     source |-> [typ |-> <<"b","a","s","e","6","4">>, media_type |-> image.mime_type, data |-> image.data]]

\* The Request of Anthropic::send_message: the text block first, then one
\* image block pushed per image.
AnthropicBuildRequest(message, model) ==
    LET images == ImagesOf(message)
        content == <<[kind |-> "Text", typ |-> <<"t","e","x","t">>, text |-> message.text]>>
                   \o [i \in 1..Len(images) |-> AnthropicImageBlock(images[i])]
    IN  [model |-> model,
         max_tokens |-> ANTHROPIC_MAX_TOKENS,
         messages |-> <<[role |-> <<"u","s","e","r">>, content |-> content]>>]

AnthropicPost(p, message) ==
    [method |-> "POST",
     url |-> ANTHROPIC_BASE_URL \o <<"m","e","s","s","a","g","e","s">>,
     headers |-> {<<"Content-Type", <<"a","p","p","l","i","c","a","t","i","o","n","/","j","s","o","n">>>>,
                  <<"anthropic-version", ANTRHOPIC_VERSION>>,
                  <<"x-api-key", p.api_key>>},
     json |-> AnthropicBuildRequest(message, p.model)]

IsAnthropicText(v) == IsObj(v) /\ ReqStr(v, "type") /\ ReqStr(v, "text")
IsAnthropicImageData(v) ==
    IsObj(v) /\ ReqStr(v, "type") /\ ReqStr(v, "media_type") /\ ReqStr(v, "data")
IsAnthropicImage(v) ==
    IsObj(v) /\ ReqStr(v, "type") /\ Has(v, "source") /\ IsAnthropicImageData(v.o["source"])

\* enum Content, untagged: Text, then Image.
IsAnthropicContent(v) == IsAnthropicText(v) \/ IsAnthropicImage(v)
AsAnthropicContent(v) ==
    IF IsAnthropicText(v) THEN [kind |-> "Text", text |-> v.o["text"].s] ELSE [kind |-> "Image"]

\* Content::as_text
AnthropicContentAsText(content) == IF content.kind = "Text" THEN content.text ELSE <<"[","i","m","a","g","e","]">>

IsAnthropicUsage(v) == IsObj(v) /\ ReqU32(v, "input_tokens") /\ ReqU32(v, "output_tokens")

IsAnthropicMessage(v) ==
    /\ IsObj(v)
    /\ ReqStr(v, "id") /\ ReqStr(v, "type") /\ ReqStr(v, "model") /\ ReqStr(v, "role")
    /\ ReqStr(v, "stop_reason")
    /\ (OptNone(v, "stop_sequence") \/ IsString(v.o["stop_sequence"]))
    /\ Has(v, "usage") /\ IsAnthropicUsage(v.o["usage"])
    /\ ReqArr(v, "content") /\ (\A e \in Elems(v, "content") : IsAnthropicContent(e))

IsAnthropicErrorDetails(v) == IsObj(v) /\ ReqStr(v, "type") /\ ReqStr(v, "message")
IsAnthropicError(v) ==
    IsObj(v) /\ ReqStr(v, "type") /\ Has(v, "error") /\ IsAnthropicErrorDetails(v.o["error"])

\* serde_json::from_value::<Response>: Message, then Error.
AnthropicFromValue(v) ==
    IF IsAnthropicMessage(v)
    THEN Ok([variant |-> "Message",
             content |-> [i \in 1..Len(v.o["content"].a) |->
                             AsAnthropicContent(v.o["content"].a[i])]])
    ELSE IF IsAnthropicError(v)
    THEN Ok([variant |-> "Error",
             error |-> [typ |-> v.o["error"].o["type"].s,
                        message |-> v.o["error"].o["message"].s]])
    ELSE Err("Decode", <<"d","a","t","a"," ","d","i","d"," ","n","o","t"," ","m","a","t","c","h"," ","a","n","y"," ","v","a","r","i","a","n","t"," ","o","f"," ","u","n","t","a","g","g","e","d"," ","e","n","u","m"," ","R","e","s","p","o","n","s","e">>)

\* Response::text: content[0] is indexed, which panics on an empty Vec.
AnthropicResponseText(message) ==
    IF Len(message.content) = 0 THEN Panic(<<"i","n","d","e","x"," ","o","u","t"," ","o","f"," ","b","o","u","n","d","s">>)
    ELSE Ok([text |-> AnthropicContentAsText(message.content[1])])

AnthropicOutcome(reply) ==
    IF reply.kind = "transport_error" THEN Err("Transport", <<"e","r","r","o","r"," ","s","e","n","d","i","n","g"," ","r","e","q","u","e","s","t">>)
    ELSE IF reply.kind = "not_json" THEN Err("Transport", <<"e","r","r","o","r"," ","d","e","c","o","d","i","n","g"," ","r","e","s","p","o","n","s","e"," ","b","o","d","y">>)
    ELSE LET response == AnthropicFromValue(reply.value)
         IN  IF response.tag # "Ok" THEN response
             ELSE IF response.val.variant = "Error"
             THEN Err("VendorError", response.val.error.message)
             ELSE AnthropicResponseText(response.val)

-----------------------------------------------------------------------------
(* AIProvider::send_message, by the provider the Client holds.             *)

ProviderPost(p, message) ==
    IF p.kind = "OpenAI" THEN OpenAIPost(p, message)
    ELSE IF p.kind = "Anthropic" THEN AnthropicPost(p, message)
    ELSE GooglePost(p, message)

ProviderOutcome(p, reply) ==
    IF p.kind = "OpenAI" THEN OpenAIOutcome(reply)
    ELSE IF p.kind = "Anthropic" THEN AnthropicOutcome(reply)
    ELSE GoogleOutcome(reply)

-----------------------------------------------------------------------------
(* The inputs the model draws from.                                        *)

EnvVars == {"OPENAI_API_KEY", "ANTHROPIC_API_KEY", "GEMINI_API_KEY", "PROMPT_PATH"}

EnvValue(name) ==
    IF name = "OPENAI_API_KEY" THEN <<"s","k","-","o">>
    ELSE IF name = "ANTHROPIC_API_KEY" THEN <<"s","k","-","a">>
    ELSE IF name = "GEMINI_API_KEY" THEN <<"A","I","z","a">>
    ELSE <<"p","r","o","m","p","t","s">>

EnvOf(names) == [k \in names |-> EnvValue(k)]

Envs == {EnvOf(names) : names \in SUBSET EnvVars}

\* Identifiers for Client::new: each prefix alone, with a suffix, cut short,
\* in another letter case, not at the start, and none.
ModelIds ==
    { <<>>, <<"g","p","t">>, <<"g","p","t","-","4","o">>, <<"g","p","t","-","5","-","x">>, <<"g","p">>, <<"G","P","T","-","4">>, <<"x","g","p","t","-","4">>,
      <<"c","l","a","u","d","e">>, <<"c","l","a","u","d","e","-","3","-","o","p","u","s","-","2","0","2","4","0","2","2","9">>, <<"c","l","a","u","d">>, <<"C","l","a","u","d","e","-","3">>,
      <<"g","e","m","i","n","i">>, <<"g","e","m","i","n","i","-","1",".","5","-","p","r","o">>, <<"g","e","m","i","n","i","-","2",".","0","-","f","l","a","s","h">>, <<"G","e","m","i","n","i","-","2">>, <<"g","e","m","i","n">>,
      <<"l","l","a","m","a","-","3">> }

\* The identifiers the builder's life cycle is followed with.
MainModelIds == { <<"g","p","t","-","4","o">>, <<"c","l","a","u","d","e","-","3","-","o","p","u","s","-","2","0","2","4","0","2","2","9">>, <<"g","e","m","i","n","i","-","2",".","0","-","f","l","a","s","h">>, <<"l","l","a","m","a","-","3">> }

Texts == { <<"H","i">>, <<"W","h","y"," ","i","s"," ","t","h","e"," ","s","k","y"," ","r","e","d","?">> }

Overrides == { <<"g","p","t","-","4">>, <<"g","e","m","i","n","i","-","1",".","5","-","p","r","o">> }

Bytes == {0, 1, 63, 128, 250, 255}

ByteSeqs(n) == UNION {[1..k -> Bytes] : k \in 0..n}

MimeTypes == { <<"i","m","a","g","e","/","j","p","e","g">>, <<"i","m","a","g","e","/","p","n","g">>, <<"i","m","a","g","e","/","g","i","f">>, <<"i","m","a","g","e","/","w","e","b","p">> }

\* The images the builder's life cycle is followed with.
MainImages == { <<<<>>, <<"i","m","a","g","e","/","p","n","g">>>>, <<<<255, 0>>, <<"i","m","a","g","e","/","j","p","e","g">>>>, <<<<1>>, <<"i","m","a","g","e","/","b","m","p">>>> }

Paths ==
    { <<"a",".","j","p","g">>, <<"b",".","j","p","e","g">>, <<"c",".","p","n","g">>, <<"d",".","g","i","f">>, <<"e",".","w","e","b","p">>,
      <<"f",".","J","P","G">>, <<"g",".","P","n","g">>, <<"h",".","b","m","p">>, <<"i",".","j","p","e","g","x">>, <<"n","o","e","x","t">>, <<"p","n","g">>, <<".","p","n","g">>, <<"j",".">>,
      <<"k",".","t","a","r",".","p","n","g">>, <<"d","i","r",".","p","n","g","/","l">>, <<"d","i","r","/","m",".","g","i","f">>, <<"n",".","w","e","b","p","/">>, <<"o",".","j","p","g","/",".">>, <<".",".">>, <<>> }

MainPaths == { <<"c",".","p","n","g">>, <<"f",".","J","P","G">>, <<"n","o","e","x","t">> }

IoError == Err("Io", <<"N","o"," ","s","u","c","h"," ","f","i","l","e"," ","o","r"," ","d","i","r","e","c","t","o","r","y"," ","(","o","s"," ","e","r","r","o","r"," ","2",")">>)

-----------------------------------------------------------------------------
(* The caller's steps.                                                     *)

PcAfter(r, good) == IF r.tag = "Panic" THEN "panicked" ELSE IF r.tag = "Ok" THEN good ELSE "done"

\* let client = Client::new(model)?; client.message()
NewClient(ids) ==
    /\ pc = "start"
    /\ \E model \in ids :
        LET r == ClientNew(env, model)
        IN  /\ last' = [op |-> "new", model |-> model]
            /\ ret' = r
            /\ pc' = PcAfter(r, "building")
            /\ client' = IF r.tag = "Ok" THEN Some(r.val) ELSE None
            /\ builder' = IF r.tag = "Ok" THEN MessageBuilderNew ELSE builder
    /\ UNCHANGED <<env, handed, posted, body>>

\* .text(text)
CallText ==
    /\ pc = "building"
    /\ \E text \in Texts :
        /\ last' = [op |-> "text", text |-> text]
        /\ builder' = BuilderText(builder, text)
    /\ ret' = Ok("builder")
    /\ UNCHANGED <<pc, env, client, handed, posted, body>>

\* .prompt(name)?
CallPrompt ==
    /\ pc = "building"
    /\ \E read \in {IoError} \cup {Ok(t) : t \in Texts} :
        LET r == BuilderPrompt(builder, env, read)
        IN  /\ last' = [op |-> "prompt", read |-> read]
            /\ ret' = IF r.tag = "Ok" THEN Ok("builder") ELSE r
            /\ pc' = PcAfter(r, "building")
            /\ builder' = IF r.tag = "Ok" THEN r.val ELSE builder
    /\ UNCHANGED <<env, client, handed, posted, body>>

\* .image(data, mime_type)
CallImage(inputs) ==
    /\ pc = "building"
    /\ Len(builder.images) < MaxImages
    /\ \E input \in inputs :
        /\ last' = [op |-> "image", data |-> input[1], mime_type |-> input[2]]
        /\ builder' = BuilderImage(builder, input[1], input[2])
    /\ ret' = Ok("builder")
    /\ UNCHANGED <<pc, env, client, handed, posted, body>>

\* .image_file(file)?
CallImageFile(files, contents) ==
    /\ pc = "building"
    /\ Len(builder.images) < MaxImages
    /\ \E file \in files, read \in {IoError} \cup {Ok(c) : c \in contents} :
        LET r == BuilderImageFile(builder, file, read)
        IN  /\ last' = [op |-> "image_file", file |-> file, read |-> read]
            /\ ret' = IF r.tag = "Ok" THEN Ok("builder") ELSE r
            /\ pc' = PcAfter(r, "building")
            /\ builder' = IF r.tag = "Ok" THEN r.val ELSE builder
    /\ UNCHANGED <<env, client, handed, posted, body>>

\* .model(model)
CallModel ==
    /\ pc = "building"
    /\ \E model \in Overrides :
        /\ last' = [op |-> "model", model |-> model]
        /\ builder' = BuilderModel(builder, model)
    /\ ret' = Ok("builder")
    /\ UNCHANGED <<pc, env, client, handed, posted, body>>

\* send_message posting its request a second time.
SendMessageTwice(message) ==
    /\ handed' = Append(handed, message)
    /\ posted' = Append(Append(posted, ProviderPost(client.val, message)),
                        ProviderPost(client.val, message))
    /\ pc' = "awaiting"

\* provider.send_message(message), up to its first await: the request is
\* built and posted.
SendMessage(message) ==
    /\ handed' = Append(handed, message)
    /\ posted' = Append(posted, ProviderPost(client.val, message))
    /\ pc' = "awaiting"

\* .send().await, up to the await of the HTTP exchange.
CallSend ==
    /\ pc = "building"
    /\ last' = [op |-> "send"]
    /\ LET m == BuilderMessage(builder)
       IN  IF m.tag = "Ok"
           THEN SendMessage(m.val) /\ UNCHANGED ret
           ELSE /\ ret' = m
                /\ pc' = "panicked"
                /\ UNCHANGED <<handed, posted>>
    /\ UNCHANGED <<env, client, builder, body>>

\* The HTTP exchange ends and send_message runs to its return.
Reply(replies) ==
    /\ pc = "awaiting"
    /\ \E reply \in replies[client.val.kind] :
        LET r == ProviderOutcome(client.val, reply)
        IN  /\ body' = Some(reply)
            /\ ret' = r
            /\ pc' = IF r.tag = "Panic" THEN "panicked" ELSE "done"
    /\ UNCHANGED <<env, client, builder, last, handed, posted>>

-----------------------------------------------------------------------------
(* Replies of the vendors.                                                 *)

\* An object of the members given as <<name, value>> pairs.
Obj(members) == JObj([k \in {m[1] : m \in members} |-> (CHOOSE m \in members : m[1] = k)[2]])

Json(v) == [kind |-> "json", value |-> v]
TransportError == [kind |-> "transport_error"]
NotJson == [kind |-> "not_json"]

GoogleTextPart(text) == Obj({<<"text", JStr(text)>>})
GoogleInlinePart == Obj({<<"inlineData", Obj({<<"mimeType", JStr(<<"i","m","a","g","e","/","p","n","g">>)>>,
                                               <<"data", JStr(<<"A","Q","=","=">>)>>})>>})
GoogleContent(parts) == Obj({<<"parts", JArr(parts)>>, <<"role", JStr(<<"m","o","d","e","l">>)>>})

GoogleError(code, message, status) ==
    Obj({<<"error", Obj({<<"code", JNum(code)>>, <<"message", JStr(message)>>,
                         <<"status", JStr(status)>>})>>})

OpenAIChoice(content) ==
    Obj({<<"finish_reason", JStr(<<"s","t","o","p">>)>>, <<"index", JNum(0)>>, <<"logprobs", JNull>>,
         <<"message", Obj({<<"content", content>>, <<"role", JStr(<<"a","s","s","i","s","t","a","n","t">>)>>})>>})

OpenAISuccess(choices) ==
    Obj({<<"choices", JArr(choices)>>, <<"created", JNum(1719328775)>>,
         <<"id", JStr(<<"c","h","a","t","c","m","p","l","-","9","e","2">>)>>, <<"model", JStr(<<"g","p","t","-","4","o","-","2","0","2","4","-","0","5","-","1","3">>)>>,
         <<"object", JStr(<<"c","h","a","t",".","c","o","m","p","l","e","t","i","o","n">>)>>,
         <<"system_fingerprint", JStr(<<"f","p","_","8","c","6","b","9","1","8","8","5","2">>)>>,
         <<"usage", Obj({<<"completion_tokens", JNum(1024)>>, <<"prompt_tokens", JNum(1563)>>,
                         <<"total_tokens", JNum(2587)>>})>>})

OpenAIErrorBody(code, message, param) ==
    Obj({<<"error", Obj({<<"code", code>>, <<"message", message>>, <<"param", param>>,
                         <<"type", JStr(<<"i","n","v","a","l","i","d","_","r","e","q","u","e","s","t","_","e","r","r","o","r">>)>>})>>})

AnthropicTextBlock(text) == Obj({<<"text", JStr(text)>>, <<"type", JStr(<<"t","e","x","t">>)>>})

AnthropicSuccess(content) ==
    Obj({<<"content", JArr(content)>>, <<"id", JStr(<<"m","s","g","_","0","1","3","Z">>)>>,
         <<"model", JStr(<<"c","l","a","u","d","e","-","3","-","5","-","s","o","n","n","e","t","-","2","0","2","4","0","6","2","0">>)>>, <<"role", JStr(<<"a","s","s","i","s","t","a","n","t">>)>>,
         <<"stop_reason", JStr(<<"e","n","d","_","t","u","r","n">>)>>, <<"stop_sequence", JNull>>,
         <<"type", JStr(<<"m","e","s","s","a","g","e">>)>>,
         <<"usage", Obj({<<"input_tokens", JNum(10)>>, <<"output_tokens", JNum(25)>>})>>})

AnthropicErrorBody(typ, message) ==
    Obj({<<"type", JStr(<<"e","r","r","o","r">>)>>,
         <<"error", Obj({<<"type", JStr(typ)>>, <<"message", JStr(message)>>})>>})

Hello == <<"H","e","l","l","o","!"," ","H","o","w"," ","c","a","n"," ","I"," ","a","s","s","i","s","t"," ","y","o","u"," ","t","o","d","a","y","?">>

\* The replies the builder's life cycle is followed with.
MainReplies ==
    [kind \in {"OpenAI", "Anthropic", "Google"} |->
        {TransportError, NotJson} \cup
        (IF kind = "OpenAI"
         THEN {Json(OpenAISuccess(<<OpenAIChoice(JStr(<<"r","e","s","p","o","n","s","e">>))>>)),
               Json(OpenAIErrorBody(JNull, JStr(<<"I","n","v","a","l","i","d"," ","c","o","n","t","e","n","t"," ","t","y","p","e",".">>),
                                    JStr(<<"m","e","s","s","a","g","e","s",".","[","0","]",".","c","o","n","t","e","n","t",".","[","1","]",".","t","y","p","e">>)))}
         ELSE IF kind = "Anthropic"
         THEN {Json(AnthropicSuccess(<<AnthropicTextBlock(<<"H","i","!"," ","M","y"," ","n","a","m","e"," ","i","s"," ","C","l","a","u","d","e",".">>)>>)),
               Json(AnthropicErrorBody(<<"i","n","v","a","l","i","d","_","r","e","q","u","e","s","t","_","e","r","r","o","r">>, <<"<","s","t","r","i","n","g",">">>))}
         ELSE {Json(Obj({<<"candidates",
                           JArr(<<Obj({<<"content", GoogleContent(<<GoogleTextPart(Hello)>>)>>,
                                       <<"finishReason", JStr(<<"S","T","O","P">>)>>})>>)>>})),
               Json(GoogleError(400, <<"I","n","v","a","l","i","d"," ","a","r","g","u","m","e","n","t",":"," ","'","m","o","d","e","l","'",".">>, <<"I","N","V","A","L","I","D","_","A","R","G","U","M","E","N","T">>))})]

-----------------------------------------------------------------------------
(* The builder's life cycle: Client::new, the builder's calls, send, and   *)
(* the reply.                                                              *)

MainEnvs == {EnvOf(EnvVars), EnvOf(EnvVars \ {"PROMPT_PATH"}), EnvOf(EnvVars \ {"GEMINI_API_KEY"})}

MainContents == {<<1>>}

Start(envs) ==
    /\ pc = "start"
    /\ env \in envs
    /\ client = None
    /\ builder = MessageBuilderNew
    /\ last = [op |-> "none"]
    /\ ret = NotCalled
    /\ handed = <<>>
    /\ posted = <<>>
    /\ body = None

Init == Start(MainEnvs)

Next ==
    \/ NewClient(MainModelIds)
    \/ CallText
    \/ CallPrompt
    \/ CallImage(MainImages)
    \/ CallImageFile(MainPaths, MainContents)
    \/ CallModel
    \/ CallSend
    \/ Reply(MainReplies)

Spec == Init /\ [][Next]_vars

-----------------------------------------------------------------------------
(* The dispatcher alone, over every environment and identifier.            *)

InitDispatch == Start(Envs)

NextDispatch == NewClient(ModelIds)

SpecDispatch == InitDispatch /\ [][NextDispatch]_vars

-----------------------------------------------------------------------------
(* One image added to a fresh builder, over the byte sequences and paths.  *)

InitImage ==
    /\ pc = "building"
    /\ env = EnvOf(EnvVars)
    /\ client = Some(ProviderNew("OpenAI", EnvValue("OPENAI_API_KEY"), <<"g","p","t","-","4","o">>))
    /\ builder = MessageBuilderNew
    /\ last = [op |-> "new", model |-> <<"g","p","t","-","4","o">>]
    /\ ret = Ok(ProviderNew("OpenAI", EnvValue("OPENAI_API_KEY"), <<"g","p","t","-","4","o">>))
    /\ handed = <<>>
    /\ posted = <<>>
    /\ body = None

FirstImage ==
    /\ builder.images = <<>>
    /\ CallImage(ByteSeqs(MaxBytes) \X (MimeTypes \cup {<<"i","m","a","g","e","/","b","m","p">>}))

FirstImageFile ==
    /\ builder.images = <<>>
    /\ CallImageFile(Paths, ByteSeqs(MaxBytes))

NextImage == FirstImage \/ FirstImageFile

SpecImage == InitImage /\ [][NextImage]_vars

-----------------------------------------------------------------------------
(* One send_message on a provider built with new(api_key, model), with a   *)
(* Message given directly (as the HTTP endpoint does), over the replies.   *)

MaxCandidates == 2

CandidateOptions == {"index", "safetyRatings", "avgLogprobs"}
TopOptions == {"modelVersion", "usageMetadata", "promptFeedback", "extra"}

SafetyRatingsValue ==
    JArr(<<Obj({<<"category", JStr(<<"H","A","R","M","_","C","A","T","E","G","O","R","Y","_","S","E","X","U","A","L","L","Y","_","E","X","P","L","I","C","I","T">>)>>,
                <<"probability", JStr(<<"N","E","G","L","I","G","I","B","L","E">>)>>})>>)

CandidateOption(name) ==
    IF name = "index" THEN JNum(0)
    ELSE IF name = "safetyRatings" THEN SafetyRatingsValue
    ELSE JFrac

\* usageMetadata as Gemini 2 sends it, with members the code does not know.
UsageMetadataValue ==
    Obj({<<"candidatesTokenCount", JNum(36)>>, <<"promptTokenCount", JNum(3636)>>,
         <<"totalTokenCount", JNum(3672)>>,
         <<"candidatesTokensDetails",
           JArr(<<Obj({<<"modality", JStr(<<"T","E","X","T">>)>>, <<"tokenCount", JNum(36)>>})>>)>>})

TopOption(name) ==
    IF name = "modelVersion" THEN JStr(<<"g","e","m","i","n","i","-","2",".","0","-","f","l","a","s","h">>)
    ELSE IF name = "usageMetadata" THEN UsageMetadataValue
    ELSE IF name = "promptFeedback" THEN Obj({<<"safetyRatings", SafetyRatingsValue>>})
    ELSE JStr(<<"u","n","k","n","o","w","n"," ","m","e","m","b","e","r">>)

\* A candidate: its parts, which of role and finishReason it carries, and
\* which optional members.
GoogleCandidate(parts, required, options) ==
    Obj({<<"content", Obj({<<"parts", JArr(parts)>>}
                          \cup (IF "role" \in required THEN {<<"role", JStr(<<"m","o","d","e","l">>)>>} ELSE {}))>>}
        \cup (IF "finishReason" \in required THEN {<<"finishReason", JStr(<<"S","T","O","P">>)>>} ELSE {})
        \cup {<<o, CandidateOption(o)>> : o \in options})

GoogleSuccess(candidates, options) ==
    Obj({<<"candidates", JArr(candidates)>>} \cup {<<o, TopOption(o)>> : o \in options})

Complete == {"role", "finishReason"}

OtherText == <<"B","a","s","e","d"," ","o","n"," ","t","h","e"," ","c","o","n","t","e","n","t"," ","o","f"," ","t","h","e"," ","f","a","x">>

\* Part lists whose first part is a text part.
TextFirstParts ==
    { <<GoogleTextPart(Hello)>>,
      <<GoogleTextPart(OtherText), GoogleInlinePart>>,
      <<GoogleTextPart(<<>>), GoogleTextPart(Hello)>> }

\* A part that has both a text and an inlineData member.
GoogleBothPart == Obj({<<"text", JStr(Hello)>>, <<"inlineData", GoogleInlinePart.o["inlineData"]>>})

\* Success payloads with one complete candidate whose first part is text,
\* under every choice of the optional members.
GoogleTextSuccesses ==
    { GoogleSuccess(<<GoogleCandidate(parts, Complete, co)>>, to) :
        parts \in TextFirstParts, co \in SUBSET CandidateOptions, to \in SUBSET TopOptions }

\* Other candidate lists that are as the schema has them: none, more than
\* one, parts that are empty or that start with an image, optional members
\* that are null.
SchemaCandidateLists ==
    { <<>>,
      <<GoogleCandidate(<<>>, Complete, {})>>,
      <<GoogleCandidate(<<GoogleInlinePart>>, Complete, {})>>,
      <<GoogleCandidate(<<GoogleInlinePart, GoogleTextPart(Hello)>>, Complete, {})>>,
      <<GoogleCandidate(<<GoogleBothPart>>, Complete, {})>>,
      <<Obj({<<"content", GoogleContent(<<GoogleTextPart(Hello)>>)>>,
             <<"finishReason", JStr(<<"S","T","O","P">>)>>, <<"index", JNull>>, <<"avgLogprobs", JNull>>})>> }
    \cup (IF MaxCandidates >= 2
          THEN { <<GoogleCandidate(<<GoogleTextPart(Hello)>>, Complete, {})>> \o rest :
                   rest \in { r \in
                     {<<GoogleCandidate(<<GoogleTextPart(OtherText)>>, Complete, {"index"})>>,
                      <<GoogleCandidate(<<GoogleInlinePart>>, Complete, {})>>,
                      <<GoogleCandidate(<<GoogleTextPart(OtherText)>>, Complete, {}),
                        GoogleCandidate(<<>>, Complete, {})>>} : Len(r) < MaxCandidates } }
          ELSE {})

\* Candidate lists with a member missing or of another type.
OtherCandidateLists ==
    { <<GoogleCandidate(<<GoogleTextPart(Hello), Obj({})>>, Complete, {})>>,
      <<GoogleCandidate(<<GoogleTextPart(Hello)>>, {"role"}, {})>>,
      <<GoogleCandidate(<<GoogleTextPart(Hello)>>, {"finishReason"}, {})>>,
      <<GoogleCandidate(<<GoogleTextPart(Hello)>>, {"role"}, CandidateOptions)>>,
      <<Obj({<<"finishReason", JStr(<<"S","A","F","E","T","Y">>)>>})>>,
      <<Obj({<<"content", GoogleContent(<<GoogleTextPart(Hello)>>)>>,
             <<"finishReason", JStr(<<"S","T","O","P">>)>>, <<"index", JStr(<<"0">>)>>})>>,
      <<Obj({<<"content", GoogleContent(<<GoogleTextPart(Hello)>>)>>,
             <<"finishReason", JNull>>})>> }
    \cup (IF MaxCandidates >= 2
          THEN { <<GoogleCandidate(<<GoogleTextPart(Hello)>>, Complete, {})>> \o rest :
                   rest \in { <<GoogleCandidate(<<GoogleTextPart(OtherText)>>, {"role"}, {})>>,
                              <<Obj({<<"finishReason", JStr(<<"S","A","F","E","T","Y">>)>>})>> } }
          ELSE {})

\* Success payloads as the schema has them.
GoogleSchemaSuccesses ==
    GoogleTextSuccesses
    \cup { GoogleSuccess(cs, to) : cs \in SchemaCandidateLists, to \in {{}, TopOptions} }
    \cup { Obj({<<"candidates", JArr(<<GoogleCandidate(<<GoogleTextPart(Hello)>>, Complete, {})>>)>>,
                <<"modelVersion", JNull>>, <<"usageMetadata", JNull>>, <<"promptFeedback", JNull>>}) }

GoogleOtherSuccesses ==
    { GoogleSuccess(cs, to) : cs \in OtherCandidateLists, to \in {{}, TopOptions} }
    \cup { Obj({<<"candidates", JArr(<<GoogleCandidate(<<GoogleTextPart(Hello)>>, Complete, {})>>)>>,
                <<"usageMetadata", Obj({<<"totalTokenCount", JNum(3672)>>})>>}),
           Obj({<<"candidates", JArr(<<GoogleCandidate(<<GoogleTextPart(Hello)>>, Complete, {})>>)>>,
                <<"modelVersion", JNum(2)>>}),
           Obj({<<"candidates", JStr(<<"n","o","n","e">>)>>}),
           Obj({<<"candidates", JNull>>}) }

ErrorCodes == {0, 400, 429}
ErrorMessages == { <<"I","n","v","a","l","i","d"," ","a","r","g","u","m","e","n","t",":"," ","'","m","o","d","e","l","'",".">>, <<>> }
ErrorStatuses == { <<"I","N","V","A","L","I","D","_","A","R","G","U","M","E","N","T">>, <<"R","E","S","O","U","R","C","E","_","E","X","H","A","U","S","T","E","D">> }

GoogleErrors ==
    { GoogleError(code, message, status) :
        code \in ErrorCodes, message \in ErrorMessages, status \in ErrorStatuses }
    \cup { Obj({<<"error", Obj({<<"code", JNum(400)>>, <<"message", JStr(<<"I","n","v","a","l","i","d"," ","a","r","g","u","m","e","n","t",":"," ","'","m","o","d","e","l","'",".">>)>>,
                                <<"status", JStr(<<"I","N","V","A","L","I","D","_","A","R","G","U","M","E","N","T">>)>>,
                                <<"details", JArr(<<>>)>>})>>,
                <<"extra", JStr(<<"u","n","k","n","o","w","n"," ","m","e","m","b","e","r">>)>>}) }

\* Error payloads with a member missing or of another type, and payloads
\* that carry an error beside candidates.
GoogleOtherErrors ==
    { Obj({<<"error", Obj({<<"code", JNum(400)>>, <<"message", JStr(<<"I","n","v","a","l","i","d"," ","a","r","g","u","m","e","n","t",":"," ","'","m","o","d","e","l","'",".">>)>>})>>}),
      Obj({<<"error", Obj({<<"code", JStr(<<"4","0","0">>)>>, <<"message", JStr(<<"I","n","v","a","l","i","d"," ","a","r","g","u","m","e","n","t",":"," ","'","m","o","d","e","l","'",".">>)>>,
                           <<"status", JStr(<<"I","N","V","A","L","I","D","_","A","R","G","U","M","E","N","T">>)>>})>>}),
      Obj({<<"error", Obj({<<"code", JNum(-1)>>, <<"message", JStr(<<"I","n","v","a","l","i","d"," ","a","r","g","u","m","e","n","t",":"," ","'","m","o","d","e","l","'",".">>)>>,
                           <<"status", JStr(<<"I","N","V","A","L","I","D","_","A","R","G","U","M","E","N","T">>)>>})>>}),
      Obj({<<"error", Obj({<<"code", JBigNum>>, <<"message", JStr(<<"I","n","v","a","l","i","d"," ","a","r","g","u","m","e","n","t",":"," ","'","m","o","d","e","l","'",".">>)>>,
                           <<"status", JStr(<<"I","N","V","A","L","I","D","_","A","R","G","U","M","E","N","T">>)>>})>>}),
      Obj({<<"error", JStr(<<"I","n","v","a","l","i","d"," ","a","r","g","u","m","e","n","t",":"," ","'","m","o","d","e","l","'",".">>)>>}),
      Obj({<<"error", GoogleError(400, <<"I","n","v","a","l","i","d"," ","a","r","g","u","m","e","n","t",":"," ","'","m","o","d","e","l","'",".">>, <<"I","N","V","A","L","I","D","_","A","R","G","U","M","E","N","T">>).o["error"]>>,
           <<"candidates", JArr(<<GoogleCandidate(<<GoogleTextPart(Hello)>>, Complete, {})>>)>>}),
      Obj({<<"error", GoogleError(400, <<"I","n","v","a","l","i","d"," ","a","r","g","u","m","e","n","t",":"," ","'","m","o","d","e","l","'",".">>, <<"I","N","V","A","L","I","D","_","A","R","G","U","M","E","N","T">>).o["error"]>>,
           <<"candidates", JArr(<<GoogleCandidate(<<GoogleTextPart(Hello)>>, {"role"}, {})>>)>>}),
      Obj({}), JArr(<<>>), JStr(Hello), JNull }

GoogleReplies ==
    {TransportError, NotJson}
    \cup { Json(v) : v \in GoogleSchemaSuccesses \cup GoogleOtherSuccesses
                         \cup GoogleErrors \cup GoogleOtherErrors }

AnthropicImageValue ==
    Obj({<<"type", JStr(<<"i","m","a","g","e">>)>>,
         <<"source", Obj({<<"type", JStr(<<"b","a","s","e","6","4">>)>>, <<"media_type", JStr(<<"i","m","a","g","e","/","p","n","g">>)>>,
                          <<"data", JStr(<<"A","Q","=","=">>)>>})>>})

ClaudeText == <<"H","i","!"," ","M","y"," ","n","a","m","e"," ","i","s"," ","C","l","a","u","d","e",".">>

\* Content lists of an Anthropic message: text first, image first, none.
AnthropicContents ==
    { <<AnthropicTextBlock(ClaudeText)>>,
      <<AnthropicTextBlock(<<>>), AnthropicTextBlock(ClaudeText)>>,
      <<AnthropicTextBlock(ClaudeText), AnthropicImageValue>>,
      <<AnthropicImageValue>>,
      <<AnthropicImageValue, AnthropicTextBlock(ClaudeText)>>,
      <<>> }

AnthropicErrorTypes == { <<"i","n","v","a","l","i","d","_","r","e","q","u","e","s","t","_","e","r","r","o","r">>, <<"o","v","e","r","l","o","a","d","e","d","_","e","r","r","o","r">> }
AnthropicErrorMessages == { <<"<","s","t","r","i","n","g",">">>, <<"O","v","e","r","l","o","a","d","e","d">>, <<>> }

\* Bodies that are neither an Anthropic message nor an Anthropic error.
AnthropicOtherBodies ==
    { Obj({<<"type", JStr(<<"e","r","r","o","r">>)>>,
           <<"error", Obj({<<"type", JStr(<<"o","v","e","r","l","o","a","d","e","d","_","e","r","r","o","r">>)>>})>>}),
      Obj({<<"type", JStr(<<"e","r","r","o","r">>)>>, <<"error", JStr(<<"O","v","e","r","l","o","a","d","e","d">>)>>}),
      Obj({<<"type", JStr(<<"m","e","s","s","a","g","e">>)>>, <<"content", JArr(<<AnthropicTextBlock(ClaudeText)>>)>>}),
      Obj({<<"type", JStr(<<"m","e","s","s","a","g","e">>)>>, <<"content", JArr(<<>>)>>}),
      Obj({}), JArr(<<>>), JStr(ClaudeText), JNull }

\* A payload with its type member set to another string.
Retyped(v, typ) == JObj([v.o EXCEPT !["type"] = JStr(typ)])

\* Payloads whose type member is not the one their other members go with.
AnthropicRetypedBodies ==
    { Retyped(AnthropicSuccess(<<AnthropicTextBlock(ClaudeText)>>), <<"e","r","r","o","r">>),
      Retyped(AnthropicSuccess(<<AnthropicTextBlock(ClaudeText)>>), <<"c","o","m","p","l","e","t","i","o","n">>),
      Retyped(AnthropicErrorBody(<<"o","v","e","r","l","o","a","d","e","d","_","e","r","r","o","r">>, <<"O","v","e","r","l","o","a","d","e","d">>), <<"m","e","s","s","a","g","e">>),
      Retyped(AnthropicErrorBody(<<"o","v","e","r","l","o","a","d","e","d","_","e","r","r","o","r">>, <<"O","v","e","r","l","o","a","d","e","d">>), <<"f","a","i","l","u","r","e">>) }

AnthropicReplies ==
    {TransportError, NotJson}
    \cup { Json(v) : v \in AnthropicRetypedBodies }
    \cup { Json(AnthropicSuccess(content)) : content \in AnthropicContents }
    \cup { Json(AnthropicErrorBody(t, m)) : t \in AnthropicErrorTypes, m \in AnthropicErrorMessages }
    \cup { Json(v) : v \in AnthropicOtherBodies }

OpenAITextPartValue == Obj({<<"type", JStr(<<"t","e","x","t">>)>>, <<"text", JStr(<<"r","e","s","p","o","n","s","e">>)>>})

\* Choice lists of an OpenAI message: a string content, a content of typed
\* parts, none.
OpenAIChoiceLists ==
    { <<OpenAIChoice(JStr(<<"r","e","s","p","o","n","s","e">>))>>,
      <<OpenAIChoice(JStr(<<>>)), OpenAIChoice(JStr(<<"r","e","s","p","o","n","s","e">>))>>,
      <<OpenAIChoice(JArr(<<>>))>>,
      <<OpenAIChoice(JArr(<<OpenAITextPartValue>>))>>,
      <<OpenAIChoice(JStr(<<"r","e","s","p","o","n","s","e">>)), OpenAIChoice(JArr(<<OpenAITextPartValue>>))>>,
      <<OpenAIChoice(JNull)>>,
      <<>> }

OpenAIErrorCodes == { JNull, JStr(<<"i","n","v","a","l","i","d","_","r","e","q","u","e","s","t","_","e","r","r","o","r">>), JStr(<<"m","o","d","e","l","_","n","o","t","_","f","o","u","n","d">>) }
OpenAIErrorMessages == { <<"I","n","v","a","l","i","d"," ","c","o","n","t","e","n","t"," ","t","y","p","e",".">>, <<"T","h","e"," ","m","o","d","e","l"," ","d","o","e","s"," ","n","o","t"," ","e","x","i","s","t">>, <<>> }
OpenAIErrorParams == { <<"m","e","s","s","a","g","e","s",".","[","0","]",".","c","o","n","t","e","n","t",".","[","1","]",".","t","y","p","e">>, <<"m","o","d","e","l">> }

\* Error payloads with a code, a message, a param and a type,
\* and one with members the code does not know.
OpenAIErrors ==
    { OpenAIErrorBody(code, JStr(message), JStr(param)) :
        code \in OpenAIErrorCodes, message \in OpenAIErrorMessages, param \in OpenAIErrorParams }
    \cup { Obj({<<"error", Obj({<<"message", JStr(<<"I","n","v","a","l","i","d"," ","c","o","n","t","e","n","t"," ","t","y","p","e",".">>)>>,
                                <<"param", JStr(<<"m","o","d","e","l">>)>>,
                                <<"type", JStr(<<"i","n","v","a","l","i","d","_","r","e","q","u","e","s","t","_","e","r","r","o","r">>)>>})>>}),
           Obj({<<"error", OpenAIErrorBody(JNull, JStr(<<"I","n","v","a","l","i","d"," ","c","o","n","t","e","n","t"," ","t","y","p","e",".">>),
                                           JStr(<<"m","o","d","e","l">>)).o["error"]>>,
                <<"extra", JStr(<<"u","n","k","n","o","w","n"," ","m","e","m","b","e","r">>)>>}) }

\* Bodies that are neither an OpenAI message nor an OpenAI error: a null
\* param, a numeric code, no type, no error at all.
OpenAIOtherBodies ==
    { OpenAIErrorBody(JNull, JStr(<<"I","n","c","o","r","r","e","c","t"," ","A","P","I"," ","k","e","y"," ","p","r","o","v","i","d","e","d">>), JNull),
      OpenAIErrorBody(JNum(404), JStr(<<"T","h","e"," ","m","o","d","e","l"," ","d","o","e","s"," ","n","o","t"," ","e","x","i","s","t">>), JStr(<<"m","o","d","e","l">>)),
      Obj({<<"error", Obj({<<"code", JNull>>, <<"message", JStr(<<"I","n","v","a","l","i","d"," ","c","o","n","t","e","n","t"," ","t","y","p","e",".">>)>>,
                           <<"param", JStr(<<"m","o","d","e","l">>)>>})>>}),
      Obj({<<"error", Obj({<<"code", JStr(<<"i","n","v","a","l","i","d","_","a","p","i","_","k","e","y">>)>>,
                           <<"message", JStr(<<"I","n","c","o","r","r","e","c","t"," ","A","P","I"," ","k","e","y"," ","p","r","o","v","i","d","e","d">>)>>,
                           <<"type", JStr(<<"i","n","v","a","l","i","d","_","r","e","q","u","e","s","t","_","e","r","r","o","r">>)>>})>>}),
      Obj({<<"error", JStr(<<"I","n","v","a","l","i","d"," ","c","o","n","t","e","n","t"," ","t","y","p","e",".">>)>>}),
      Obj({<<"choices", JArr(<<OpenAIChoice(JStr(<<"r","e","s","p","o","n","s","e">>))>>)>>}),
      Obj({<<"choices", JArr(<<>>)>>}),
      Obj({}), JArr(<<>>), JStr(<<"r","e","s","p","o","n","s","e">>), JNull }

\* An object with one more member.
WithMember(v, k, x) == JObj([m \in (DOMAIN v.o) \cup {k} |-> IF m = k THEN x ELSE v.o[m]])

\* Bodies that carry an error beside the members of a message: the whole
\* message, and the message without its usage.
OpenAIBothBodies ==
    LET error == OpenAIErrorBody(JStr(<<"m","o","d","e","l","_","n","o","t","_","f","o","u","n","d">>), JStr(<<"T","h","e"," ","m","o","d","e","l"," ","d","o","e","s"," ","n","o","t"," ","e","x","i","s","t">>),
                                 JStr(<<"m","o","d","e","l">>)).o["error"]
        message == OpenAISuccess(<<OpenAIChoice(JStr(<<"r","e","s","p","o","n","s","e">>))>>)
    IN  { WithMember(message, "error", error),
          WithMember(Without(message, "usage"), "error", error),
          Without(message, "usage") }

OpenAIReplies ==
    {TransportError, NotJson}
    \cup { Json(OpenAISuccess(choices)) : choices \in OpenAIChoiceLists }
    \cup { Json(v) : v \in OpenAIErrors \cup OpenAIOtherBodies \cup OpenAIBothBodies }

WireReplies ==
    [kind \in {"OpenAI", "Anthropic", "Google"} |->
        IF kind = "Google" THEN GoogleReplies
        ELSE IF kind = "OpenAI" THEN OpenAIReplies
        ELSE AnthropicReplies]

\* Images as a caller of send_message may give them: data is any string.
WireImages ==
    { Image(Encode(<<255, 0>>), <<"i","m","a","g","e","/","p","n","g">>),
      Image(<<"A","Q","=","=">>, <<"i","m","a","g","e","/","j","p","e","g">>),
      Image(<<"n","o","t"," ","b","a","s","e","6","4","!">>, <<"i","m","a","g","e","/","b","m","p">>) }

ImageSeqs(n) == UNION {[1..k -> WireImages] : k \in 0..n}

Messages ==
    { Message(<<"H","e","l","l","o",","," ","w","o","r","l","d","!">>, images, model) :
        images \in {None} \cup {Some(s) : s \in ImageSeqs(MaxImages)},
        model \in {None, Some(<<"g","p","t","-","4">>), Some(<<"g","e","m","i","n","i","-","1",".","5","-","p","r","o">>)} }

Providers ==
    { ProviderNew("OpenAI", <<"s","k","-","o">>, <<"g","p","t","-","4","o">>),
      ProviderNew("Anthropic", <<"s","k","-","a">>, <<"c","l","a","u","d","e","-","3","-","5","-","s","o","n","n","e","t","-","2","0","2","4","0","6","2","0">>),
      ProviderNew("Google", <<"A","I","z","a">>, <<"g","e","m","i","n","i","-","2",".","0","-","f","l","a","s","h">>),
      ProviderNew("Google", <<"A","I","z","a">>, <<"g","e","m","i","n","i","-","1",".","5","-","p","r","o">>) }

InitSend ==
    /\ pc = "ready"
    /\ env = EnvOf({})
    /\ client \in {Some(p) : p \in Providers}
    /\ builder = MessageBuilderNew
    /\ last = [op |-> "none"]
    /\ ret = NotCalled
    /\ handed = <<>>
    /\ posted = <<>>
    /\ body = None

\* client.send_message(message).await, up to the await of the HTTP exchange.
CallSendMessage ==
    /\ pc = "ready"
    /\ \E message \in Messages :
        /\ last' = [op |-> "send_message"]
        /\ SendMessage(message)
    /\ UNCHANGED <<env, client, builder, ret, body>>

NextSend == CallSendMessage \/ Reply(WireReplies)

SpecSend == InitSend /\ [][NextSend]_vars

-----------------------------------------------------------------------------
(* The request of one send_message, over providers of many models.         *)

\* Model identifiers a Google provider can be built with.
GoogleModelIds ==
    { <<"g","e","m","i","n","i","-","2">>, <<"g","e","m","i","n","i","-","2",".","0","-","f","l","a","s","h">>, <<"g","e","m","i","n","i","-","2",".","5","-","p","r","o","-","e","x","p","-","0","3","-","2","5">>, <<"g","e","m","i","n","i","-","2","0">>,
      <<"g","e","m","i","n","i","-","1",".","5","-","p","r","o">>, <<"g","e","m","i","n","i","-","1",".","0","-","g","e","m","i","n","i","-","2">>, <<"g","e","m","i","n","i","-">>, <<"g","e","m","i","n","i">>, <<"G","e","m","i","n","i","-","2",".","0">> }

RequestProviders ==
    { ProviderNew("Google", <<"A","I","z","a">>, id) : id \in GoogleModelIds }
    \cup { ProviderNew("OpenAI", <<"s","k","-","o">>, id) : id \in { <<"g","p","t","-","4","o">>, <<"g","p","t","-","3",".","5","-","t","u","r","b","o">>, <<"g","p","t","-","4">> } }
    \cup { ProviderNew("Anthropic", <<"s","k","-","a">>, id) :
             id \in { <<"c","l","a","u","d","e","-","3","-","5","-","s","o","n","n","e","t","-","2","0","2","4","0","6","2","0">>, <<"c","l","a","u","d","e","-","3","-","h","a","i","k","u","-","2","0","2","4","0","3","0","7">> } }

InitRequest ==
    /\ pc = "ready"
    /\ env = EnvOf({})
    /\ client \in {Some(p) : p \in RequestProviders}
    /\ builder = MessageBuilderNew
    /\ last = [op |-> "none"]
    /\ ret = NotCalled
    /\ handed = <<>>
    /\ posted = <<>>
    /\ body = None

NextRequest == CallSendMessage

SpecRequest == InitRequest /\ [][NextRequest]_vars

-----------------------------------------------------------------------------
(* Concurrent send_message calls: each call borrows a provider instance    *)
(* (&self) and keeps its request, its reply and its result to itself.  In  *)
(* this specification pc, last, ret, handed, posted and body hold one      *)
(* value per call, and client holds the provider instances.                *)

MaxCalls == 2

Calls == 1..MaxCalls

\* The provider instances the calls run on.
ConcInstances ==
    <<Some(ProviderNew("OpenAI", <<"s","k","-","o">>, <<"g","p","t","-","4","o">>)),
      Some(ProviderNew("Google", <<"A","I","z","a">>, <<"g","e","m","i","n","i","-","2",".","0","-","f","l","a","s","h">>))>>

ConcMessages ==
    { Message(<<"H","i">>, None, None),
      Message(<<"H","e","l","l","o",","," ","w","o","r","l","d","!">>, Some(<<Image(<<"A","Q","=","=">>, <<"i","m","a","g","e","/","p","n","g">>)>>), None) }

InitConcurrent ==
    /\ pc = [c \in Calls |-> "ready"]
    /\ env = EnvOf({})
    /\ client = ConcInstances
    /\ builder = MessageBuilderNew
    /\ last = [c \in Calls |-> [op |-> "none"]]
    /\ ret = [c \in Calls |-> NotCalled]
    /\ handed = [c \in Calls |-> <<>>]
    /\ posted = [c \in Calls |-> <<>>]
    /\ body = [c \in Calls |-> None]

\* A request built from the Message another call handed in, when there is one.
ConcRequestShared(c, i, message) ==
    ProviderPost(client[i].val,
                 IF \E d \in Calls : d # c /\ handed[d] # <<>>
                 THEN handed[CHOOSE d \in Calls : d # c /\ handed[d] # <<>>][1]
                 ELSE message)

\* The request of call c on instance i: built from &self and the call's own
\* Message.
ConcRequest(c, i, message) == ProviderPost(client[i].val, message)

\* Call c: provider.send_message(message) on instance i, up to the await of
\* the HTTP exchange.
ConcSendMessage(c) ==
    /\ pc[c] = "ready"
    /\ \E i \in DOMAIN client, message \in ConcMessages :
        /\ last' = [last EXCEPT ![c] = [op |-> "send_message", instance |-> i]]
        /\ handed' = [handed EXCEPT ![c] = <<message>>]
        /\ posted' = [posted EXCEPT ![c] = <<ConcRequest(c, i, message)>>]
    /\ pc' = [pc EXCEPT ![c] = "awaiting"]
    /\ UNCHANGED <<env, client, builder, ret, body>>

\* Call c: its HTTP exchange ends and send_message runs to its return.
ConcReply(c) ==
    /\ pc[c] = "awaiting"
    /\ LET p == client[last[c].instance].val
       IN  \E reply \in MainReplies[p.kind] :
            LET r == ProviderOutcome(p, reply)
            IN  /\ body' = [body EXCEPT ![c] = Some(reply)]
                /\ ret' = [ret EXCEPT ![c] = r]
                /\ pc' = [pc EXCEPT ![c] = IF r.tag = "Panic" THEN "panicked" ELSE "done"]
    /\ UNCHANGED <<env, client, builder, last, handed, posted>>

NextConcurrent == \E c \in Calls : ConcSendMessage(c) \/ ConcReply(c)

SpecConcurrent == InitConcurrent /\ [][NextConcurrent]_vars

-----------------------------------------------------------------------------
(* Standard base64 decoding (RFC 4648, padded, canonical), to state what   *)
(* the stored data of an image decodes to.                                 *)

IsB64Char(c) == \E i \in 1..64 : B64Alphabet[i] = c
B64Index(c) == (CHOOSE i \in 1..64 : B64Alphabet[i] = c) - 1

DecodeGroup(q, final) ==
    LET i1 == B64Index(q[1])
        i2 == B64Index(q[2])
        i3 == B64Index(q[3])
        i4 == B64Index(q[4])
    IN  IF ~(IsB64Char(q[1]) /\ IsB64Char(q[2])) THEN None
        ELSE IF IsB64Char(q[3]) /\ IsB64Char(q[4])
        THEN Some(<<i1 * 4 + (i2 \div 16), (i2 % 16) * 16 + (i3 \div 4), (i3 % 4) * 64 + i4>>)
        ELSE IF final /\ IsB64Char(q[3]) /\ q[4] = "=" /\ i3 % 4 = 0
        THEN Some(<<i1 * 4 + (i2 \div 16), (i2 % 16) * 16 + (i3 \div 4)>>)
        ELSE IF final /\ q[3] = "=" /\ q[4] = "=" /\ i2 % 16 = 0
        THEN Some(<<i1 * 4 + (i2 \div 16)>>)
        ELSE None

RECURSIVE Decode(_)
Decode(s) ==
    IF s = <<>> THEN Some(<<>>)
    ELSE IF Len(s) < 4 THEN None
    ELSE LET g == DecodeGroup(SubSeq(s, 1, 4), Len(s) = 4)
             rest == Decode(SubSeq(s, 5, Len(s)))
         IN  IF g.some /\ rest.some THEN Some(g.val \o rest.val) ELSE None

-----------------------------------------------------------------------------
(* The claims.                                                             *)

ProviderKeys == {"OPENAI_API_KEY", "ANTHROPIC_API_KEY", "GEMINI_API_KEY"}

\* The environment variable of the provider an identifier selects, if any.
KeyOfPrefix(m) ==
    IF StartsWith(m, <<"g","p","t">>) THEN Some("OPENAI_API_KEY")
    ELSE IF StartsWith(m, <<"c","l","a","u","d","e">>) THEN Some("ANTHROPIC_API_KEY")
    ELSE IF StartsWith(m, <<"g","e","m","i","n","i">>) THEN Some("GEMINI_API_KEY")
    ELSE None

\* C1: with the three API keys set, Client::new(m) returns a client backed by
\* OpenAI when m starts with "gpt", by Anthropic when it starts with "claude",
\* by Google when it starts with "gemini"; for every other m (the empty
\* string, another letter case) it returns the error "unsupported model: "
\* followed by m, and builds no provider.
C1_Dispatch ==
    (last.op = "new" /\ ProviderKeys \subseteq DOMAIN env) =>
        LET m == last.model
            Backed(kind) == /\ ret.tag = "Ok"
                            /\ client.some
                            /\ client.val.kind = kind
                            /\ ret.val = client.val
        IN  /\ StartsWith(m, <<"g","p","t">>) => Backed("OpenAI")
            /\ StartsWith(m, <<"c","l","a","u","d","e">>) => Backed("Anthropic")
            /\ StartsWith(m, <<"g","e","m","i","n","i">>) => Backed("Google")
            /\ ~(StartsWith(m, <<"g","p","t">>) \/ StartsWith(m, <<"c","l","a","u","d","e">>) \/ StartsWith(m, <<"g","e","m","i","n","i">>))
                  => /\ ret.tag = "Err"
                     /\ ret.msg = <<"u","n","s","u","p","p","o","r","t","e","d"," ","m","o","d","e","l",":"," ">> \o m
                     /\ client = None
                     /\ pc = "done"

\* Client::new("gemini-2.0-flash") has built a Google provider, with the keys set.
C1_Witness ==
    /\ last.op = "new"
    /\ ProviderKeys \subseteq DOMAIN env
    /\ last.model = <<"g","e","m","i","n","i","-","2",".","0","-","f","l","a","s","h">>
    /\ client.some
    /\ client.val.kind = "Google"

\* C2: when the identifier selects a provider whose API-key variable is
\* absent, Client::new returns an error (a typed Configuration error) to its
\* caller, does not abort, and builds no provider.
C2_ConfigurationError ==
    (last.op = "new" /\ KeyOfPrefix(last.model).some
                     /\ KeyOfPrefix(last.model).val \notin DOMAIN env) =>
        /\ ret.tag = "Err"
        /\ pc # "panicked"
        /\ client = None

\* C3: when no text is set on the builder (text is set only by text() and by
\* a prompt() that succeeds, and never unset), send fails, whatever the
\* images and the model override, and neither the provider's send_message is
\* invoked nor a request posted.
C3_SendWithoutText ==
    (last.op = "send" /\ ~builder.text.some) =>
        /\ ret.tag \notin {"Ok", "NotCalled"}
        /\ pc \notin {"awaiting", "done"}
        /\ handed = <<>>
        /\ posted = <<>>
        /\ body = None

\* send was called on a builder with two images, a model override and no text.
C3_Witness ==
    /\ last.op = "send"
    /\ ~builder.text.some
    /\ Len(builder.images) = 2
    /\ builder.model.some

\* C4: the Message that send hands to the provider has the model override
\* of the builder: Some(m) after model(m), None when model() was not called.
C4_OverrideCarried ==
    (last.op = "send" /\ handed # <<>>) => handed[1].model = builder.model

SupportedExtensions == { <<"j","p","g">>, <<"j","p","e","g">>, <<"p","n","g">>, <<"g","i","f">>, <<"w","e","b","p">> }

\* C5: image_file(path) adds an image of mime_type image/jpeg for the
\* extension jpg or jpeg, image/png for png, image/gif for gif, image/webp
\* for webp (when the file can be read); for any other extension, no
\* extension or another letter case it fails with "unsupported image format"
\* and adds no image.
C5_ImageFileMime ==
    (last.op = "image_file") =>
        LET ext == Extension(last.file)
            Added(mime) == /\ last.read.tag = "Ok" => ret.tag = "Ok"
                           /\ ret.tag = "Ok" =>
                                 /\ Len(builder.images) = 1
                                 /\ builder.images[1].mime_type = mime
        IN  /\ (ext = Some(<<"j","p","g">>) \/ ext = Some(<<"j","p","e","g">>)) => Added(<<"i","m","a","g","e","/","j","p","e","g">>)
            /\ ext = Some(<<"p","n","g">>) => Added(<<"i","m","a","g","e","/","p","n","g">>)
            /\ ext = Some(<<"g","i","f">>) => Added(<<"i","m","a","g","e","/","g","i","f">>)
            /\ ext = Some(<<"w","e","b","p">>) => Added(<<"i","m","a","g","e","/","w","e","b","p">>)
            /\ (~ext.some \/ ext.val \notin SupportedExtensions) =>
                  /\ ret.tag = "Err"
                  /\ ret.msg = <<"u","n","s","u","p","p","o","r","t","e","d"," ","i","m","a","g","e"," ","f","o","r","m","a","t">>
                  /\ builder.images = <<>>
            /\ last.file \in { <<"f",".","J","P","G">>, <<"g",".","P","n","g">>, <<"h",".","b","m","p">>, <<"n","o","e","x","t">>, <<".","p","n","g">>, <<"d","i","r",".","p","n","g","/","l">> }
                  => ret.tag = "Err" /\ ret.msg = <<"u","n","s","u","p","p","o","r","t","e","d"," ","i","m","a","g","e"," ","f","o","r","m","a","t">>

\* image_file("b.jpeg") has added an image/jpeg image.
C5_Witness ==
    /\ last.op = "image_file"
    /\ last.file = <<"b",".","j","p","e","g">>
    /\ ret.tag = "Ok"
    /\ Len(builder.images) = 1
    /\ builder.images[1].mime_type = <<"i","m","a","g","e","/","j","p","e","g">>

\* C6: after image(b, mime), and after an image_file that read b, the data
\* of the stored Image is padded standard base64 text that decodes to
\* exactly b, for every byte sequence b, the empty one included; what the
\* builder holds from the moment the image is added is that text.
C6_Base64RoundTrip ==
    (last.op \in {"image", "image_file"} /\ ret.tag = "Ok") =>
        LET b == IF last.op = "image" THEN last.data ELSE last.read.val
            data == builder.images[1].data
        IN  /\ Len(builder.images) = 1
            /\ Len(data) = 4 * ((Len(b) + 2) \div 3)
            /\ \A i \in 1..Len(data) : IsB64Char(data[i]) \/ data[i] = "="
            /\ Decode(data) = Some(b)

\* image(<<255, 250>>, ..): two bytes that are no UTF-8, stored as "//o=".
C6_Witness ==
    /\ last.op = "image"
    /\ last.data = <<255, 250>>
    /\ Len(builder.images) = 1
    /\ builder.images[1].data = <<"/","/","o","=">>

BodyValue == body.val.value

ImageCount(m) == IF m.images.some THEN Len(m.images.val) ELSE 0

\* C7: the request a provider builds from a Message with N >= 0 images has
\* exactly one user message (content object) of N + 1 units: N image units
\* and one text unit carrying Message.text; for Google the N image parts come
\* first and the text part is last, for OpenAI and Anthropic the text unit
\* is first and the N image units follow.  For Google, images = None and
\* images = Some(<<>>) both give the single text part.
C7_RequestUnits ==
    (posted # <<>>) =>
        LET m == handed[1]
            n == ImageCount(m)
            req == posted[1].json
        IN  IF client.val.kind = "Google"
            THEN /\ Len(req.contents) = 1
                 /\ req.contents[1].role = <<"u","s","e","r">>
                 /\ Len(req.contents[1].parts) = n + 1
                 /\ \A i \in 1..n : req.contents[1].parts[i].kind = "InlineData"
                 /\ req.contents[1].parts[n + 1] = TextPart(m.text)
            ELSE /\ Len(req.messages) = 1
                 /\ req.messages[1].role = <<"u","s","e","r">>
                 /\ Len(req.messages[1].content) = n + 1
                 /\ req.messages[1].content[1].kind = "Text"
                 /\ req.messages[1].content[1].text = m.text
                 /\ \A i \in 2..(n + 1) : req.messages[1].content[i].kind = "Image"

\* A Google request built from a Message with two images: the text is the third part.
C7_Witness ==
    /\ posted # <<>>
    /\ client.val.kind = "Google"
    /\ ImageCount(handed[1]) = 2
    /\ Len(posted[1].json.contents[1].parts) = 3
    /\ posted[1].json.contents[1].parts[3].kind = "Text"

\* The payload has a first candidate with finishReason and a content whose
\* first part has a text.
FirstPartIsText(v) ==
    /\ Has(v, "candidates") /\ v.o["candidates"].t = "arr" /\ Len(v.o["candidates"].a) >= 1
    /\ LET c == v.o["candidates"].a[1]
       IN  /\ Has(c, "finishReason") /\ c.o["finishReason"].t = "str"
           /\ Has(c, "content") /\ Has(c.o["content"], "parts")
           /\ c.o["content"].o["parts"].t = "arr"
           /\ Len(c.o["content"].o["parts"].a) >= 1
           /\ Has(c.o["content"].o["parts"].a[1], "text")
           /\ c.o["content"].o["parts"].a[1].o["text"].t = "str"

FirstPartText(v) == v.o["candidates"].a[1].o["content"].o["parts"].a[1].o["text"].s

HelloWithoutFinishReason ==
    Obj({<<"candidates",
           JArr(<<Obj({<<"content",
                         Obj({<<"parts", JArr(<<Obj({<<"text", JStr(Hello)>>})>>)>>,
                              <<"role", JStr(<<"m","o","d","e","l">>)>>})>>})>>)>>})

\* C9: given that payload, whose candidate has a content and no
\* finishReason, the Google provider's parsing succeeds and the Response
\* text is "Hello! How can I assist you today?".
C9_NoFinishReason ==
    (body.some /\ client.val.kind = "Google" /\ body.val.kind = "json"
               /\ BodyValue = HelloWithoutFinishReason) =>
        ret = Ok([text |-> Hello])

\* The payload is {"error": {code, message, status, ..}}, code a u32, and
\* has no candidates.
IsErrorPayload(v) ==
    /\ Has(v, "error") /\ ~Has(v, "candidates")
    /\ LET e == v.o["error"]
       IN  /\ Has(e, "code") /\ e.o["code"].t = "num" /\ e.o["code"].n >= 0
           /\ Has(e, "message") /\ e.o["message"].t = "str"
           /\ Has(e, "status") /\ e.o["status"].t = "str"

DecimalOf(n) == IF n = 0 THEN <<"0">> ELSE IF n = 400 THEN <<"4","0","0">> ELSE <<"4","2","9">>

\* C10: for every Google error payload {"error": {code, message, status}}
\* send_message returns an error, and its message is
\* "<status>: <message> (<code>)": it contains the vendor's code, status and
\* message as they came.
C10_GoogleVendorError ==
    (body.some /\ client.val.kind = "Google" /\ body.val.kind = "json"
               /\ IsErrorPayload(BodyValue)) =>
        LET e == BodyValue.o["error"]
        IN  /\ ret.tag = "Err"
            /\ ret.kind = "VendorError"
            /\ ret.msg = e.o["status"].s \o <<":"," ">> \o e.o["message"].s
                         \o <<" ","(">> \o DecimalOf(e.o["code"].n) \o <<")">>
            /\ Contains(ret.msg, e.o["status"].s)
            /\ Contains(ret.msg, e.o["message"].s)
            /\ Contains(ret.msg, DecimalOf(e.o["code"].n))

\* The error of the vendor's example: 400, INVALID_ARGUMENT, "Invalid argument: 'model'."
C10_Witness ==
    /\ body.some
    /\ client.val.kind = "Google"
    /\ body = Some(Json(GoogleError(400, <<"I","n","v","a","l","i","d"," ","a","r","g","u","m","e","n","t",":"," ","'","m","o","d","e","l","'",".">>, <<"I","N","V","A","L","I","D","_","A","R","G","U","M","E","N","T">>)))
    /\ ret.tag = "Err"
    /\ ret.msg = <<"I","N","V","A","L","I","D","_","A","R","G","U","M","E","N","T",":"," ","I","n","v","a","l","i","d"," ","a","r","g","u","m","e","n","t",":"," ","'","m","o","d","e","l","'","."," ","(","4","0","0",")">>

\* The first part of the first candidate is an inline-data part: it has an
\* inlineData member and no text member.
FirstPartIsInline(v) ==
    /\ Has(v, "candidates") /\ v.o["candidates"].t = "arr" /\ Len(v.o["candidates"].a) >= 1
    /\ LET c == v.o["candidates"].a[1]
       IN  /\ Has(c, "content") /\ Has(c.o["content"], "parts")
           /\ c.o["content"].o["parts"].t = "arr"
           /\ Len(c.o["content"].o["parts"].a) >= 1
           /\ Has(c.o["content"].o["parts"].a[1], "inlineData")
           /\ ~Has(c.o["content"].o["parts"].a[1], "text")

\* C11: for every Google success payload whose first candidate's first part
\* is an inline-data part with no text, send_message returns the error
\* "unsupported response content type ..", never a Response, also when a
\* later part of the candidate is a text part.
C11_InlineFirstPart ==
    (body.some /\ client.val.kind = "Google" /\ body.val.kind = "json"
               /\ BodyValue \in GoogleSchemaSuccesses /\ FirstPartIsInline(BodyValue)) =>
        /\ ret.tag = "Err"
        /\ ret.kind = "UnsupportedResponseContent"
        /\ StartsWith(ret.msg, <<"u","n","s","u","p","p","o","r","t","e","d"," ","r","e","s","p","o","n","s","e"," ","c","o","n","t","e","n","t"," ","t","y","p","e">>)

\* An image part followed by a text part: the text is not taken.
C11_Witness ==
    /\ body.some
    /\ client.val.kind = "Google"
    /\ body = Some(Json(GoogleSuccess(
                 <<GoogleCandidate(<<GoogleInlinePart, GoogleTextPart(Hello)>>, Complete, {})>>, {})))
    /\ ret.tag = "Err"
    /\ ret.kind = "UnsupportedResponseContent"

\* The value is an Anthropic message whose first content block is an image
\* block.
FirstBlockIsImage(v) ==
    /\ v \in { AnthropicSuccess(content) : content \in AnthropicContents }
    /\ Len(v.o["content"].a) >= 1
    /\ v.o["content"].a[1].o["type"].s = <<"i","m","a","g","e">>
    /\ ~Has(v.o["content"].a[1], "text")

\* C12: for every Anthropic success payload whose first content block is an
\* image block, send_message returns the error "unsupported response
\* content type" and no Response with a text put in its place.
C12_AnthropicImageFirst ==
    (body.some /\ client.val.kind = "Anthropic" /\ body.val.kind = "json"
               /\ FirstBlockIsImage(BodyValue)) =>
        /\ ret.tag = "Err"
        /\ StartsWith(ret.msg, <<"u","n","s","u","p","p","o","r","t","e","d"," ","r","e","s","p","o","n","s","e"," ","c","o","n","t","e","n","t"," ","t","y","p","e">>)

\* The value is {"type": "error", "error": {"type": t, "message": m}}.
IsAnthropicErrorPayload(v) ==
    /\ Has(v, "type") /\ v.o["type"] = JStr(<<"e","r","r","o","r">>)
    /\ Has(v, "error") /\ Has(v.o["error"], "type") /\ v.o["error"].o["type"].t = "str"
    /\ Has(v.o["error"], "message") /\ v.o["error"].o["message"].t = "str"

\* C13: for every Anthropic error payload {"type": "error", "error":
\* {"type": t, "message": m}}, send_message returns an error whose message
\* holds both t and m.
C13_AnthropicErrorFields ==
    (body.some /\ client.val.kind = "Anthropic" /\ body.val.kind = "json"
               /\ IsAnthropicErrorPayload(BodyValue)) =>
        /\ ret.tag = "Err"
        /\ Contains(ret.msg, BodyValue.o["error"].o["type"].s)
        /\ Contains(ret.msg, BodyValue.o["error"].o["message"].s)

\* The value is {"error": {code, message, param, type}} with a string
\* message, param and type and a code that is null or a string.
IsOpenAIErrorPayload(v) ==
    /\ Has(v, "error") /\ ~Has(v, "choices")
    /\ LET e == v.o["error"]
       IN  /\ Has(e, "code") /\ e.o["code"].t \in {"null", "str"}
           /\ Has(e, "message") /\ e.o["message"].t = "str"
           /\ Has(e, "param") /\ e.o["param"].t = "str"
           /\ Has(e, "type") /\ e.o["type"].t = "str"

\* C14: for every OpenAI error payload {"error": {code, message, param,
\* type}} with string message and param, send_message returns an error: its
\* message is "<code>: <message> (<param>)" when code is a string, and
\* "<message> (<param>)" when code is null.
C14_OpenAIVendorError ==
    (body.some /\ client.val.kind = "OpenAI" /\ body.val.kind = "json"
               /\ IsOpenAIErrorPayload(BodyValue)) =>
        LET e == BodyValue.o["error"]
        IN  /\ ret.tag = "Err"
            /\ ret.kind = "VendorError"
            /\ Contains(ret.msg, e.o["message"].s)
            /\ Contains(ret.msg, e.o["param"].s)
            /\ IF e.o["code"].t = "str"
               THEN ret.msg = e.o["code"].s \o <<":"," ">> \o e.o["message"].s
                              \o <<" ","(">> \o e.o["param"].s \o <<")">>
               ELSE ret.msg = e.o["message"].s \o <<" ","(">> \o e.o["param"].s \o <<")">>

\* An error with a code: "model_not_found: The model does not exist (model)".
C14_Witness ==
    /\ body.some
    /\ client.val.kind = "OpenAI"
    /\ body = Some(Json(OpenAIErrorBody(JStr(<<"m","o","d","e","l","_","n","o","t","_","f","o","u","n","d">>),
                                        JStr(<<"T","h","e"," ","m","o","d","e","l"," ","d","o","e","s"," ","n","o","t"," ","e","x","i","s","t">>), JStr(<<"m","o","d","e","l">>))))
    /\ ret.tag = "Err"
    /\ ret.msg = <<"m","o","d","e","l","_","n","o","t","_","f","o","u","n","d",":"," ","T","h","e"," ","m","o","d","e","l"," ","d","o","e","s"," ","n","o","t"," ","e","x","i","s","t"," ","(","m","o","d","e","l",")">>

\* C15: in every Message that reaches a provider's send_message, each Image
\* has a mime_type among image/jpeg, image/png, image/gif, image/webp and a
\* data that is valid base64.
C15_ImagesWellFormed ==
    \A i \in 1..Len(handed) :
        handed[i].images.some =>
            \A j \in 1..Len(handed[i].images.val) :
                /\ handed[i].images.val[j].mime_type \in MimeTypes
                /\ Decode(handed[i].images.val[j].data).some

\* The body is JSON of neither response shape: not an object, or an object
\* with none of the members the shapes start from.
IsNeitherShape(v) ==
    \/ v.t # "obj"
    \/ DOMAIN v.o \cap {"candidates", "choices", "content", "error"} = {}

\* The body is the error payload of the client's vendor.
IsVendorErrorPayload(kind, v) ==
    IF kind = "Google" THEN IsErrorPayload(v)
    ELSE IF kind = "OpenAI" THEN IsOpenAIErrorPayload(v)
    ELSE IsAnthropicErrorPayload(v)

\* The reply is a failure: of the transport, of the decoding, or one the
\* vendor reports.
IsFailureReply(kind, reply) ==
    \/ reply.kind \in {"transport_error", "not_json"}
    \/ reply.kind = "json" /\ (IsNeitherShape(reply.value) \/ IsVendorErrorPayload(kind, reply.value))

\* C16: a send_message call issues exactly one HTTP POST, and none once the
\* outcome is known; on a transport failure, on a body that is no JSON or
\* of neither response shape, and on a vendor error it returns an error,
\* never a Response, with that one request issued.
C16_OnePost ==
    /\ Len(posted) = Len(handed)
    /\ handed # <<>> => /\ Len(posted) = 1
                        /\ posted[1] = ProviderPost(client.val, handed[1])
                        /\ posted[1].method = "POST"
    /\ body.some => Len(posted) = 1
    /\ (body.some /\ IsFailureReply(client.val.kind, body.val)) => ret.tag = "Err"

\* A vendor error came back for the one request that was posted.
C16_Witness ==
    /\ body.some
    /\ body.val.kind = "json"
    /\ IsVendorErrorPayload(client.val.kind, body.val.value)
    /\ client.val.kind = "Anthropic"
    /\ ret.tag = "Err"
    /\ Len(posted) = 1

\* C17: for every JSON body, send_message ends by returning a Response or
\* an error to its caller; a success payload with an empty candidates list
\* (Google), an empty choices list (OpenAI), an empty content list
\* (Anthropic) or a first candidate with an empty parts list gives a
\* returned error and no panic.
C17_AlwaysReturns ==
    (body.some /\ body.val.kind = "json") =>
        /\ ret.tag \in {"Ok", "Err"}
        /\ pc = "done"

\* C18: the provider instances stay as constructed (send_message changes
\* neither api_key nor model), and under every interleaving of concurrent
\* calls, on different instances or on the same one, the request of each
\* call is the one its own provider builds from its own Message and its
\* result is the one its own provider makes of the reply to its own request.
C18_Isolation ==
    /\ client = ConcInstances
    /\ \A c \in Calls :
        IF pc[c] = "ready"
        THEN handed[c] = <<>> /\ posted[c] = <<>> /\ body[c] = None /\ ret[c] = NotCalled
        ELSE LET p == ConcInstances[last[c].instance].val
             IN  /\ Len(handed[c]) = 1
                 /\ posted[c] = <<ProviderPost(p, handed[c][1])>>
                 /\ IF body[c].some
                    THEN ret[c] = ProviderOutcome(p, body[c].val)
                    ELSE ret[c] = NotCalled /\ pc[c] = "awaiting"

\* Two calls on the same instance with different Messages have ended, one
\* with a Response and one with an error.
C18_Witness ==
    /\ last[1].op = "send_message" /\ last[2].op = "send_message"
    /\ last[1].instance = last[2].instance
    /\ handed[1] # handed[2]
    /\ pc[1] = "done" /\ pc[2] = "done"
    /\ ret[1].tag = "Ok" /\ ret[2].tag = "Err"
    /\ posted[1] # posted[2]

\* C19: for every image of a Message sent through the OpenAI provider,
\* whatever its mime_type, the image part of the request has type
\* "image_url" and the url "data:image/jpeg;base64," followed by the image's
\* data as it is; the part has no other member, so the declared mime_type is
\* not in the request.
C19_OpenAIDataUri ==
    (posted # <<>> /\ client.val.kind = "OpenAI") =>
        LET m == handed[1]
            content == posted[1].json.messages[1].content
        IN  /\ Len(content) = ImageCount(m) + 1
            /\ DOMAIN posted[1].json = {"model", "messages", "max_tokens"}
            /\ \A i \in 1..ImageCount(m) :
                /\ DOMAIN content[i + 1] = {"kind", "typ", "image_url"}
                /\ content[i + 1].typ = <<"i","m","a","g","e","_","u","r","l">>
                /\ DOMAIN content[i + 1].image_url = {"url"}
                /\ content[i + 1].image_url.url =
                       <<"d","a","t","a",":","i","m","a","g","e","/","j","p","e","g",";","b","a","s","e","6","4",",">> \o m.images.val[i].data

\* An image declared image/png goes out as a jpeg data URI.
C19_Witness ==
    /\ posted # <<>>
    /\ client.val.kind = "OpenAI"
    /\ ImageCount(handed[1]) = 2
    /\ handed[1].images.val[1] = Image(<<"/","w","A","=">>, <<"i","m","a","g","e","/","p","n","g">>)
    /\ posted[1].json.messages[1].content[2].image_url.url = <<"d","a","t","a",":","i","m","a","g","e","/","j","p","e","g",";","b","a","s","e","6","4",",","/","w","A","=">>
    /\ handed[1].images.val[2].mime_type = <<"i","m","a","g","e","/","b","m","p">>

\* C20: for every Message sent through the Anthropic provider, the i-th
\* image block of the request has the source type "base64", the i-th
\* image's mime_type as media_type and the i-th image's data as data, and
\* the request carries the anthropic-version header and the x-api-key header.
C20_AnthropicImageBlocks ==
    (posted # <<>> /\ client.val.kind = "Anthropic") =>
        LET m == handed[1]
            content == posted[1].json.messages[1].content
        IN  /\ Len(content) = ImageCount(m) + 1
            /\ \A i \in 1..ImageCount(m) :
                /\ content[i + 1].typ = <<"i","m","a","g","e">>
                /\ content[i + 1].source.typ = <<"b","a","s","e","6","4">>
                /\ content[i + 1].source.media_type = m.images.val[i].mime_type
                /\ content[i + 1].source.data = m.images.val[i].data
            /\ <<"anthropic-version", <<"2","0","2","3","-","0","6","-","0","1">>>> \in posted[1].headers
            /\ <<"x-api-key", client.val.api_key>> \in posted[1].headers
            /\ \A h \in posted[1].headers :
                  h[1] \in {"anthropic-version", "x-api-key"} =>
                      h[2] \in {<<"2","0","2","3","-","0","6","-","0","1">>, client.val.api_key}

\* Two images of different types, in the order of the Message.
C20_Witness ==
    /\ posted # <<>>
    /\ client.val.kind = "Anthropic"
    /\ ImageCount(handed[1]) = 2
    /\ handed[1].images.val[1].mime_type = <<"i","m","a","g","e","/","p","n","g">>
    /\ handed[1].images.val[2].mime_type = <<"i","m","a","g","e","/","j","p","e","g">>
    /\ posted[1].json.messages[1].content[2].source.media_type = <<"i","m","a","g","e","/","p","n","g">>
    /\ posted[1].json.messages[1].content[3].source.media_type = <<"i","m","a","g","e","/","j","p","e","g">>
    /\ posted[1].json.messages[1].content[3].source.data = <<"A","Q","=","=">>

\* C21: for every model identifier given to the Google build_request,
\* max_output_tokens is 32768 and a system instruction is attached when the
\* identifier starts with "gemini-2", and max_output_tokens is 8192 with no
\* system instruction otherwise; temperature, top_p and top_k are 0.9, 1.0
\* and 1 for every model and message.
C21_GenerationConfig ==
    (posted # <<>> /\ client.val.kind = "Google") =>
        LET req == posted[1].json
            newer == StartsWith(client.val.model, <<"g","e","m","i","n","i","-","2">>)
        IN  /\ req.generation_config.max_output_tokens = (IF newer THEN 32768 ELSE 8192)
            /\ req.system_instruction.some <=> newer
            /\ newer => req.system_instruction.val =
                            [parts |-> <<TextPart(<<"Y","o","u"," ","a","r","e"," ","a"," ","h","e","l","p","f","u","l"," ","A","I"," ","a","s","s","i","s","t","a","n","t",".">>)>>]
            /\ req.generation_config.temperature = <<"0",".","9">>
            /\ req.generation_config.top_p = <<"1",".","0">>
            /\ req.generation_config.top_k = 1

\* The request for gemini-2.5-pro-exp-03-25: 32768 tokens and a system instruction.
C21_Witness ==
    /\ posted # <<>>
    /\ client.val = ProviderNew("Google", <<"A","I","z","a">>, <<"g","e","m","i","n","i","-","2",".","5","-","p","r","o","-","e","x","p","-","0","3","-","2","5">>)
    /\ posted[1].json.generation_config.max_output_tokens = 32768
    /\ posted[1].json.system_instruction.some

\* C22: the Google generation config carries response_mime_type when the
\* model identifier starts with "gemini-2" and omits it for older
\* identifiers such as gemini-1.5-pro.
C22_ResponseMimeType ==
    (posted # <<>> /\ client.val.kind = "Google") =>
        (posted[1].json.generation_config.response_mime_type.some
            <=> StartsWith(client.val.model, <<"g","e","m","i","n","i","-","2">>))

\* C23: with_model(m) gives a provider whose model is m and whose api_key
\* and kind are as before; so the provider Client::new(id) builds has the
\* model id, not the provider's default, for every id with a recognized
\* prefix, also one that is in no MODELS catalogue, and the api_key read
\* from the provider's environment variable.
C23_WithModel ==
    (last.op = "new" /\ ret.tag = "Ok") =>
        /\ ret.val.model = last.model
        /\ ret.val.api_key = env[KeyOfPrefix(last.model).val]
        /\ \A m \in ModelIds :
              /\ with_model(ret.val, m).model = m
              /\ with_model(ret.val, m).api_key = ret.val.api_key
              /\ with_model(ret.val, m).kind = ret.val.kind

\* Client::new("gemini"): an id that is_valid_model rejects becomes the model.
C23_Witness ==
    /\ last.op = "new"
    /\ last.model = <<"g","e","m","i","n","i">>
    /\ ~is_valid_model(last.model)
    /\ ret.tag = "Ok"
    /\ ret.val = ProviderNew("Google", EnvValue("GEMINI_API_KEY"), <<"g","e","m","i","n","i">>)

\* The value is {"error": {..}} with a string message and type, a code that
\* is null, a string or absent, and a param that is null or absent.
IsOpenAIErrorWithoutParam(v) ==
    /\ Has(v, "error") /\ ~Has(v, "choices") /\ IsObj(v.o["error"])
    /\ LET e == v.o["error"]
       IN  /\ Has(e, "message") /\ e.o["message"].t = "str"
           /\ Has(e, "type") /\ e.o["type"].t = "str"
           /\ Has(e, "code") => e.o["code"].t \in {"null", "str"}
           /\ Has(e, "param") => e.o["param"].t = "null"

\* C24: an OpenAI error payload whose error has a message and a param that
\* is null or absent is reported as a vendor error carrying the vendor's
\* message, not as a decode failure.
C24_OpenAIErrorWithoutParam ==
    (body.some /\ client.val.kind = "OpenAI" /\ body.val.kind = "json"
               /\ IsOpenAIErrorWithoutParam(BodyValue)) =>
        /\ ret.tag = "Err"
        /\ ret.kind = "VendorError"
        /\ Contains(ret.msg, BodyValue.o["error"].o["message"].s)

\* C25: the Anthropic parser tells success from error by the payload's type
\* member: a payload it takes for an error has the type "error", a payload
\* it takes for a message has the type "message", whatever other members
\* the payload has.
C25_AnthropicTypeField ==
    (body.some /\ client.val.kind = "Anthropic" /\ body.val.kind = "json"
               /\ IsObj(BodyValue) /\ Has(BodyValue, "type") /\ BodyValue.o["type"].t = "str") =>
        /\ (ret.tag = "Err" /\ ret.kind = "VendorError") => BodyValue.o["type"].s = <<"e","r","r","o","r">>
        /\ ret.tag \in {"Ok", "Panic"} => BodyValue.o["type"].s = <<"m","e","s","s","a","g","e">>

\* The body has the members of the vendor's success struct.
MatchesSuccessShape(kind, v) ==
    IF kind = "Google" THEN IsSuccessResponse(v) ELSE IsOpenAIMessage(v)

\* The body has an error object with every member the vendor's error
\* struct requires.
MatchesErrorShape(kind, v) ==
    /\ Has(v, "error")
    /\ IF kind = "Google" THEN IsErrorResponse(v.o["error"]) ELSE IsOpenAIError(v.o["error"])

\* C26: the OpenAI and Google parsers try the success shape, then the error
\* shape: a body of the success shape is taken as a success even with an
\* error member beside it; any other body whose error object has all the
\* required members is a vendor error; a body of neither shape makes
\* send_message return a decode failure, which is neither a Response nor a
\* vendor error.
C26_TwoAttemptMatch ==
    (body.some /\ client.val.kind \in {"Google", "OpenAI"} /\ body.val.kind = "json") =>
        LET kind == client.val.kind
        IN  /\ MatchesSuccessShape(kind, BodyValue) =>
                \/ ret.tag \in {"Ok", "Panic"}
                \/ ret.tag = "Err" /\ ret.kind = "UnsupportedResponseContent"
            /\ (~MatchesSuccessShape(kind, BodyValue) /\ MatchesErrorShape(kind, BodyValue)) =>
                ret.tag = "Err" /\ ret.kind = "VendorError"
            /\ (~MatchesSuccessShape(kind, BodyValue) /\ ~MatchesErrorShape(kind, BodyValue)) =>
                ret.tag = "Err" /\ ret.kind = "Decode"

\* A Google body with a whole error object beside valid candidates comes
\* back as the candidate's text.
C26_Witness ==
    /\ body.some
    /\ client.val.kind = "Google"
    /\ body.val.kind = "json"
    /\ IsSuccessResponse(BodyValue)
    /\ Has(BodyValue, "error") /\ IsErrorResponse(BodyValue.o["error"])
    /\ ret = Ok([text |-> Hello])

\* The body is a chat completion with at least one choice, each choice's
\* content a string or an array of parts that name their type.
IsOpenAISuccessPayload(v) ==
    /\ IsObj(v)
    /\ {"id", "object", "created", "model", "system_fingerprint", "choices", "usage"} \subseteq DOMAIN v.o
    /\ ~Has(v, "error")
    /\ v.o["choices"].t = "arr" /\ Len(v.o["choices"].a) > 0
    /\ \A i \in 1..Len(v.o["choices"].a) :
        LET c == v.o["choices"].a[i]
        IN  /\ Has(c, "message") /\ Has(c.o["message"], "content")
            /\ LET content == c.o["message"].o["content"]
               IN  \/ content.t = "str"
                   \/ /\ content.t = "arr"
                      /\ \A j \in 1..Len(content.a) :
                            Has(content.a[j], "type") /\ content.a[j].o["type"].t = "str"

FirstChoiceContent(v) == v.o["choices"].a[1].o["message"].o["content"]

\* C27: for every OpenAI success payload, the Response text is the first
\* choice's content when that content is a string, whatever the later
\* choices are; when it is an array of typed parts, send_message fails with
\* "unsupported response content type", a text part at its head included.
C27_OpenAIFirstChoice ==
    (body.some /\ client.val.kind = "OpenAI" /\ body.val.kind = "json"
               /\ IsOpenAISuccessPayload(BodyValue)) =>
        LET content == FirstChoiceContent(BodyValue)
        IN  /\ content.t = "str" => ret = Ok([text |-> content.s])
            /\ content.t = "arr" =>
                /\ ret.tag = "Err"
                /\ ret.kind = "UnsupportedResponseContent"
                /\ StartsWith(ret.msg, <<"u","n","s","u","p","p","o","r","t","e","d"," ","r","e","s","p","o","n","s","e"," ","c","o","n","t","e","n","t"," ","t","y","p","e">>)

\* What one builder call does to the text and the images, and what send
\* makes of them.
C28_BuilderStep ==
    pc = "building" =>
        /\ last'.op = "text" =>
            /\ builder'.text = Some(last'.text)
            /\ builder'.images = builder.images
        /\ last'.op = "prompt" =>
            /\ builder'.text = IF ret'.tag = "Ok" THEN Some(last'.read.val) ELSE builder.text
            /\ builder'.images = builder.images
        /\ last'.op = "model" =>
            /\ builder'.text = builder.text
            /\ builder'.images = builder.images
        /\ last'.op = "image" =>
            /\ builder'.text = builder.text
            /\ Len(builder'.images) = Len(builder.images) + 1
            /\ SubSeq(builder'.images, 1, Len(builder.images)) = builder.images
            /\ builder'.images[Len(builder'.images)] =
                   Image(Encode(last'.data), last'.mime_type)
        /\ last'.op = "image_file" =>
            /\ builder'.text = builder.text
            /\ IF ret'.tag = "Ok"
               THEN /\ Len(builder'.images) = Len(builder.images) + 1
                    /\ SubSeq(builder'.images, 1, Len(builder.images)) = builder.images
               ELSE builder'.images = builder.images
        /\ (last'.op = "send" /\ pc' = "awaiting") =>
            /\ handed' = <<Message(builder.text.val, Some(builder.images), None)>>

\* A text call and an image call made in either order leave the same
\* builder, and so the same Message.
C28_Commute ==
    \A t \in Texts, input \in MainImages :
        /\ BuilderText(BuilderImage(builder', input[1], input[2]), t)
             = BuilderImage(BuilderText(builder', t), input[1], input[2])
        /\ BuilderMessage(BuilderText(BuilderImage(builder', input[1], input[2]), t))
             = BuilderMessage(BuilderImage(BuilderText(builder', t), input[1], input[2]))

\* C28: in every chain of text, image and model calls that ends in send,
\* the Message's text is what the last text or prompt call set, its images
\* are the images added, in the order of the image calls, and a text call
\* and an image call commute; each image call grows the list by one and
\* leaves the text and the earlier images as they were.
C28_BuilderAccumulates == [][C28_BuilderStep /\ C28_Commute]_vars

\* A Message of two different images, sent after a text call: the images
\* are in the order of the builder's list.
C28_Witness ==
    /\ pc = "awaiting"
    /\ last.op = "send"
    /\ Len(handed) = 1
    /\ handed[1].text = builder.text.val
    /\ Len(handed[1].images.val) = 2
    /\ handed[1].images.val = builder.images
    /\ handed[1].images.val[1] # handed[1].images.val[2]

\* C29: the Google request carries the Message's images in reverse order
\* ahead of the text: with N images, the image at position k of
\* Message.images (from 0) is the part at index N-1-k, so here, counting
\* from 1, image j is part N+1-j; the part has the image's mime_type and
\* data as they are.
C29_GoogleImagesReversed ==
    (posted # <<>> /\ client.val.kind = "Google") =>
        LET m == handed[1]
            n == ImageCount(m)
            parts == posted[1].json.contents[1].parts
        IN  /\ Len(parts) = n + 1
            /\ parts[n + 1].kind = "Text"
            /\ \A j \in 1..n :
                /\ parts[n + 1 - j].kind = "InlineData"
                /\ parts[n + 1 - j].mime_type = m.images.val[j].mime_type
                /\ parts[n + 1 - j].data = m.images.val[j].data

\* Two different images: the second is the first part of the request, the
\* first is the second part.
C29_Witness ==
    /\ posted # <<>>
    /\ client.val.kind = "Google"
    /\ ImageCount(handed[1]) = 2
    /\ handed[1].images.val[1] # handed[1].images.val[2]
    /\ posted[1].json.contents[1].parts[1].data = handed[1].images.val[2].data
    /\ posted[1].json.contents[1].parts[2].data = handed[1].images.val[1].data
    /\ posted[1].json.contents[1].parts[1] # posted[1].json.contents[1].parts[2]

\* C30: the model named in a request is the model of the provider instance:
\* the model member of the OpenAI and Anthropic bodies, the model segment
\* of the Google URL.  The model of the Message handed to send_message,
\* absent or any string, changes nothing in the request.
C30_InstanceModel ==
    (posted # <<>>) =>
        LET p == client.val
            m == handed[1]
        IN  /\ p.kind \in {"OpenAI", "Anthropic"} => posted[1].json.model = p.model
            /\ p.kind = "Google" =>
                posted[1].url = GOOGLE_BASE_URL \o <<"m","o","d","e","l","s","/">> \o p.model
                                \o <<":","g","e","n","e","r","a","t","e","C","o","n","t","e","n","t","?","k","e","y","=">> \o p.api_key
            /\ \A other \in {None} \cup {Some(id) : id \in Overrides} :
                posted[1] = ProviderPost(p, [m EXCEPT !.model = other])

\* A Message that names gpt-4 handed to an OpenAI instance of gpt-4o: the
\* request names gpt-4o.
C30_Witness ==
    /\ posted # <<>>
    /\ client.val.kind = "OpenAI"
    /\ client.val.model = <<"g","p","t","-","4","o">>
    /\ handed[1].model = Some(<<"g","p","t","-","4">>)
    /\ posted[1].json.model = <<"g","p","t","-","4","o">>

====
